---- MODULE Spec2Model ----
(***************************************************************************)
(* Speech pipeline of the Pepper robot controller.                         *)
(*                                                                         *)
(*   HybridTTSHandler (hybrid_tts_handler.py): three synthesis tiers,      *)
(*   Groq -> Edge -> ElevenLabs, with per-tier daily-limit flags.          *)
(*   PepperRobot (pepper_interface.py): speak_hq / play_audio_file /       *)
(*   speak, the speech lock, the LED priority state machine, the thinking  *)
(*   pulse thread and the HQ speech animation thread.                      *)
(***************************************************************************)
EXTENDS Integers, Sequences, FiniteSets, TLC

(***************************************************************************)
(* Bounds of the model.                                                    *)
(***************************************************************************)
\* number of threads that call speak_hq / speak concurrently
NumThreads == 2

Threads == 1..NumThreads

(***************************************************************************)
(* Audio buffers.  A buffer is a sequence of bytes; a path either names a  *)
(* file holding a buffer or names nothing.                                 *)
(***************************************************************************)
Empty == << >>

WavGood == <<"R", "I", "F", "F", "s", "s", "s", "s", "W", "A", "V", "E", "d">>

Mp3Good == <<"I", "D", "3", "v", "f", "s", "s", "s", "s", "d", "d", "d", "d">>

\* same size as WavGood, but an error page rather than audio
HtmlPage == <<"<", "h", "t", "m", "l", ">", "4", "2", "9", "<", "/", "h", ">">>

Missing == [exists |-> FALSE, bytes |-> Empty]

File(b) == [exists |-> TRUE, bytes |-> b]

\* what one tier's back-end can write for a call that reports success
Contents(tier) == IF tier = 1 THEN {Empty, WavGood, HtmlPage}
                              ELSE {Empty, Mp3Good, HtmlPage}

\* an exception text, lower-cased, as the set of words it holds
ErrMsgs == { {"error", "code", "429"}, {"quota", "exceeded"}, {"connection", "timeout"} }

\* one back-end call: it returns having written bytes, or it raises
Outcomes(tier) ==
    [kind : {"ok"}, bytes : Contents(tier), msg : {{}}]
        \cup [kind : {"raise"}, bytes : {Empty}, msg : ErrMsgs]

\* an account error of ElevenLabs: no rate limit, no quota
AccountMsgs == { {"invalid", "subscription"} }

\* one back-end call that returns good audio or raises, the account errors
\* included
ErrorOutcomes(tier) ==
    [kind : {"ok"}, bytes : {IF tier = 1 THEN WavGood ELSE Mp3Good}, msg : {{}}]
        \cup [kind : {"raise"}, bytes : {Empty}, msg : ErrMsgs \cup AccountMsgs]

\* container signatures: RIFF....WAVE, and ID3 for the MP3 tiers
IsWav(b) ==
    /\ Len(b) >= 12
    /\ SubSeq(b, 1, 4) = <<"R", "I", "F", "F">>
    /\ SubSeq(b, 9, 12) = <<"W", "A", "V", "E">>

IsMp3(b) == Len(b) >= 3 /\ SubSeq(b, 1, 3) = <<"I", "D", "3">>

\* the container a tier claims to write: .wav for Groq, .mp3 for the others
CorrectSignatureOf(tier, b) == IF tier = 1 THEN IsWav(b) ELSE IsMp3(b)

\* HybridTTSHandler._valid_audio: the file exists and its size is > 0
NoSizeCheckValidAudio(f) == f.exists

ValidAudio(f) == f.exists /\ Len(f.bytes) > 0

\* _speak_groq's except branch: "429" in err or "rate limit" in err or "daily" in err
GroqIsRateLimit(msg) ==
    "429" \in msg \/ {"rate", "limit"} \subseteq msg \/ "daily" \in msg

\* _speak_elevenlabs's except branch: "quota", "limit", "429" or "subscription" in err
ElIsRateLimit(msg) ==
    "quota" \in msg \/ "limit" \in msg \/ "429" \in msg \/ "subscription" \in msg

(***************************************************************************)
(* HybridTTSHandler.speak as a function of the two flags, the              *)
(* elevenlabs_enabled setting and what each back-end does when called.     *)
(***************************************************************************)
\* speak's test before Tier 1 (and _speak_groq's own first test)
NeverSkipGroq(flag) == TRUE

GroqAttempted(flag) == ~flag

\* speak's test before Tier 3 (and _speak_elevenlabs's own first test)
NeverSkipEl(enabled, flag, earlier) == ~earlier

ElAfterSuccess(enabled, flag, earlier) == enabled /\ ~flag

ElAttempted(enabled, flag, earlier) == ~earlier /\ enabled /\ ~flag

YieldsUnchecked(attempted, o) == attempted /\ o.kind = "ok"

\* a tier's attempt yields the file speak returns
TierYields(attempted, o) ==
    attempted /\ o.kind = "ok" /\ ValidAudio(File(o.bytes))

MadeBeforeFlagTest(attempted) == TRUE

\* "fd, f = tempfile.mkstemp(...)" stands inside the tier's block
TempFileMade(attempted) == attempted

KeepsEveryTemp(attempted, yields) == attempted

\* a tier's temp file after its block: made when the tier is attempted,
\* removed by _cleanup unless it is the file returned
TempFileLeft(attempted, yields) == attempted /\ yields

\* _groq_daily_limit_hit after the Tier 1 block
ForgetGroqFlag(flag, attempted, o) == FALSE

ExpiringGroqFlag(flag, attempted, o) ==
    attempted /\ o.kind = "raise" /\ GroqIsRateLimit(o.msg)

GroqFlagAfter(flag, attempted, o) ==
    flag \/ (attempted /\ o.kind = "raise" /\ GroqIsRateLimit(o.msg))

ElFlagOn429Only(flag, attempted, o) ==
    flag \/ (attempted /\ o.kind = "raise" /\ "429" \in o.msg)

\* _elevenlabs_daily_limit_hit after the Tier 3 block
ElFlagAfter(flag, attempted, o) ==
    flag \/ (attempted /\ o.kind = "raise" /\ ElIsRateLimit(o.msg))

\* the whole of speak: which tiers were called, the flags afterwards, and
\* the returned path's tier (0 for None) and file
SpeakResult(gflag, eflag, enabled, o1, o2, o3) ==
    LET a1 == GroqAttempted(gflag)
        y1 == TierYields(a1, o1)
        a2 == ~y1
        y2 == TierYields(a2, o2)
        a3 == ElAttempted(enabled, eflag, y1 \/ y2)
        y3 == TierYields(a3, o3)
    IN  [ attempted |-> (IF a1 THEN <<1>> ELSE << >>)
                            \o (IF a2 THEN <<2>> ELSE << >>)
                            \o (IF a3 THEN <<3>> ELSE << >>),
          raised    |-> (IF a1 /\ o1.kind = "raise" THEN {<<1, o1.msg>>} ELSE {})
                            \cup (IF a2 /\ o2.kind = "raise" THEN {<<2, o2.msg>>} ELSE {})
                            \cup (IF a3 /\ o3.kind = "raise" THEN {<<3, o3.msg>>} ELSE {}),
          groq      |-> GroqFlagAfter(gflag, a1, o1),
          el        |-> ElFlagAfter(eflag, a3, o3),
          tier      |-> IF y1 THEN 1 ELSE IF y2 THEN 2 ELSE IF y3 THEN 3 ELSE 0,
          made      |-> {i \in 1..3 : TempFileMade(<<a1, a2, a3>>[i])},
          left      |-> {i \in 1..3 : TempFileLeft(<<a1, a2, a3>>[i], <<y1, y2, y3>>[i])},
          file      |-> IF y1 THEN File(o1.bytes)
                        ELSE IF y2 THEN File(o2.bytes)
                        ELSE IF y3 THEN File(o3.bytes)
                        ELSE Missing ]


(***************************************************************************)
(* State.                                                                  *)
(***************************************************************************)
VARIABLES
    \* HybridTTSHandler fields
    groq_daily_limit_hit,
    elevenlabs_daily_limit_hit,
    elevenlabs_enabled,
    \* what the calls made directly to HybridTTSHandler did since the last reset
    obs,
    \* PepperRobot fields
    speech_lock,            \* 0 when free, else the thread holding it
    led_state,              \* "idle" | "thinking" | "speaking"
    led_emotion_color,
    is_speaking_hq,
    thinking,               \* PepperRobot._thinking
    \* the robot's eye LEDs: the colour of the last fadeRGB
    eye,
    \* the threads that call speak_hq / play_audio_file / speak: where each
    \* is, its locals, and what its call did so far
    th,
    \* the HQSpeechAnim thread started by each caller
    anim,
    \* the caller of thinking_indicator and the ThinkingPulse thread
    think_pc,
    pulse_pc,
    pulse_idx,
    \* HybridTTSHandler.edge_rate, in percent, and the arguments of the
    \* latest back-end call
    edge_rate,
    sent,
    \* PepperRobot._ssh_client (0 for None), the SSH connections whose
    \* transport reads active, and those of them whose peer no longer answers
    ssh_client,
    ssh_live,
    ssh_dead,
    \* the clock, PepperRobot._last_gesture_time, _gesture_lock, the Gesture
    \* worker threads, and the animation loop's gesture step
    now,
    last_gesture_time,
    gesture_lock,
    gw,
    bg,
    \* main.py's message pipeline: state.message_lock, state.message_queue
    \* and the threads running handle_message
    mq,
    \* VoiceHandler: its fields, its callers and its auto-stop timers
    vh

ttsVars == <<groq_daily_limit_hit, elevenlabs_daily_limit_hit, elevenlabs_enabled>>

ledVars == <<led_state, led_emotion_color, eye>>

thinkVars == <<thinking, think_pc, pulse_pc, pulse_idx>>

animVars == <<is_speaking_hq, anim>>

robotVars == <<speech_lock, ledVars, thinkVars, animVars, th>>

prosodyVars == <<edge_rate, sent>>

sshVars == <<ssh_client, ssh_live, ssh_dead>>

gestVars == <<now, last_gesture_time, gesture_lock, gw, bg>>

appVars == <<mq, vh>>

auxVars == <<prosodyVars, sshVars, gestVars, appVars>>

vars == <<ttsVars, obs, robotVars, auxVars>>

Range(q) == {q[i] : i \in 1..Len(q)}

\* the outcome recorded for a tier that was not called
NotCalled == [kind |-> "none", bytes |-> Empty, msg |-> {}]

\* no call observed yet
NoObs ==
    [ seen |-> FALSE, before |-> [groq |-> FALSE, el |-> FALSE],
      outs |-> <<NotCalled, NotCalled, NotCalled>>, attempted |-> << >>, rl |-> {}, prev_rl |-> {},
      tier |-> 0, file |-> Missing,
      made |-> {},          \* tiers for which the latest speak made a temp file
      left |-> {},          \* tiers whose temp file the latest speak left on disk
      resets |-> 0,         \* reset_daily_limits calls since the latest speak
      reset_from |-> [groq |-> FALSE, el |-> FALSE] ]  \* the flags before them

\* a thread that runs none of the speech methods
IdleThread ==
    [ pc       |-> "idle",
      mode     |-> "none",  \* the public method being run: "hq", "play", "speak"
      emotion  |-> "none",  \* emotion argument of speak_hq
      colour   |-> "blue",  \* emotion_color argument of play_audio_file
      path     |-> 0,       \* audio_path: 0 for None, else the tier that made the file
      remote   |-> FALSE,   \* the file put into the robot's /tmp is still there
      result   |-> FALSE,   \* the value play_audio_file / speak_hq returns
      plays    |-> 0,       \* ALAudioPlayer.play invocations of this call
      says     |-> 0,       \* animated_speech.say / tts.say invocations of this call
      xfers    |-> 0,       \* _transfer_to_robot invocations of this call
      entered  |-> FALSE,   \* _enter_led_speaking took the speaking state
      online   |-> TRUE,    \* _pepper_ok() as main._say found it
      cb       |-> FALSE,   \* main._say was given a gesture callback
      gest     |-> 0,       \* invocations of that gesture callback
      lplays   |-> 0,       \* HybridTTSHandler.play_audio runs that found a player
      client   |-> 0,       \* _ensure_ssh's local "client": the connection it opened
      closed   |-> 0,       \* the connection this call's _ensure_ssh closed, 0 for none
      connects |-> 0,       \* client.connect invocations of this call
      cleanups |-> 0,       \* _cleanup_remote invocations of this call
      deletes  |-> 0,       \* "rm -f" commands of this call that reached the robot
      ledfail  |-> {},      \* the eye writes of this call in which fadeRGB raised
      local    |-> FALSE,   \* the local temp file speak returned exists
      fail     |-> "none" ] \* what made play_audio_file return False: "transfer",
                            \* "lock" (acquire timed out), "load" or "play" (raised)

\* a thread whose call has returned v
Returned(v) == [IdleThread EXCEPT !.pc = "done", !.result = v]

\* the emotion tags a caller passes (None is "none")
Emotions == {"happy", "none"}

\* PepperRobot.EMOTION_COLOUR_MAP.get(emotion or "", "blue")
EmotionColour(e) ==
    CASE e = "happy"     -> "yellow"
      [] e = "sad"       -> "blue"
      [] e = "excited"   -> "green"
      [] e = "curious"   -> "blue"
      [] e = "surprised" -> "white"
      [] e = "neutral"   -> "blue"
      [] OTHER           -> "blue"

InitTts ==
    /\ groq_daily_limit_hit = FALSE
    /\ elevenlabs_daily_limit_hit = FALSE
    /\ elevenlabs_enabled \in BOOLEAN
    /\ obs = NoObs

InitRobot ==
    /\ speech_lock = 0
    /\ led_state = "idle"
    /\ led_emotion_color = "blue"
    /\ is_speaking_hq = FALSE
    /\ thinking = FALSE
    /\ eye = "blue"
    /\ th = [t \in Threads |-> IdleThread]
    /\ anim = [t \in Threads |-> "dead"]
    /\ think_pc = "idle"
    /\ pulse_pc = "dead"
    /\ pulse_idx = 0

\* no back-end call made yet
NoSent == [tier |-> 0, emotion |-> "none", text |-> << >>, rate |-> 0, pitch |-> 0,
           settings |-> FALSE, stability |-> 0, style |-> 0]

\* _GESTURE_COOLDOWN = 2.5 seconds, in clock ticks of half a second
GESTURE_COOLDOWN == 5

\* the Gesture worker threads told apart: the one the animation loop
\* spawned, and one spawned by a gesture call from any other thread
GestureKinds == {"background", "intentional"}

\* a Gesture worker thread that does not exist
NoWorker == [pc |-> "none", left |-> 0, gap |-> 0, busy |-> FALSE]

\* the animation loop at its "while self._is_speaking_hq" test; stop tells
\* that the loop has read the stop signal (_is_speaking_hq = False)
LoopTop == [pc |-> "idle", wake |-> 0, stop |-> FALSE]

\* no SSH connection yet
InitSsh == ssh_client = 0 /\ ssh_live = {} /\ ssh_dead = {}

\* _last_gesture_time = 0.0, and a clock that is far past 0.0
InitGesture ==
    /\ now = GESTURE_COOLDOWN
    /\ last_gesture_time = 0
    /\ gesture_lock = "free"
    /\ gw = [k \in GestureKinds |-> NoWorker]
    /\ bg = LoopTop

\* how many messages arrive, each on its own thread
MaxMsgs == 4

Msgs == 1..MaxMsgs

\* queue.Queue(maxsize=config.MSG_QUEUE_SIZE)
QueueSize == 2

\* the message lock free, the queue empty, no message arrived yet
InitMsg ==
    mq = [ lock      |-> 0,       \* state.message_lock: 0 free, else the holding thread
           queue     |-> << >>,   \* state.message_queue, oldest first
           pc        |-> [m \in Msgs |-> "new"],
           cur       |-> [m \in Msgs |-> 0],  \* the message the thread is processing
           processed |-> {},      \* messages _process_message has run for
           dropped   |-> {},      \* messages taken out of a full queue as its oldest
           refused   |-> {} ]     \* messages whose put_nowait raised queue.Full

\* how many recordings are told apart, and how many audio blocks
MaxRecs == 2

MaxChunks == 2

Recs == 1..MaxRecs

\* the threads that run stop_recording_and_transcribe: the caller (0) and
\* the auto-stop timer of each recording
Stoppers == 0..MaxRecs

NoStop == [pc |-> "idle", taken |-> 0, which |-> 0]

\* VoiceHandler.__init__: not recording, no chunks, no stream, no timer
InitVoice ==
    vh = [ is_recording |-> FALSE,
           chunks   |-> 0,         \* len(self._audio_chunks)
           cur      |-> 0,         \* the recording is_recording stands for, 0 before any
           stream   |-> 0,         \* the recording self._stream captures, 0 for None
           timer    |-> 0,         \* the recording self._auto_stop_timer belongs to, 0 for None
           timers   |-> [r \in Recs |-> "none"],   \* "none", "armed", "cancelled", "fired"
           start    |-> "idle",    \* the caller of start_recording: "idle", "open"
           returned |-> "none",    \* what the last start_recording call returned
           stop     |-> [k \in Stoppers |-> NoStop],
           handed   |-> [r \in Recs |-> 0] ]  \* VoiceTranscribeThread starts per recording

\* config.TTS_RATE = "+0%"; no SSH connection; no gesture made yet; no
\* message arrived; the voice handler as constructed
InitAux ==
    /\ edge_rate = 0
    /\ sent = NoSent
    /\ InitSsh
    /\ InitGesture
    /\ InitMsg
    /\ InitVoice

\* the handler alone, with or without an ElevenLabs key
InitHandler == InitTts /\ InitRobot /\ InitAux

\* the robot, its handler built with all three tiers
Init == InitTts /\ elevenlabs_enabled /\ InitRobot /\ InitAux

(***************************************************************************)
(* HybridTTSHandler, called directly.                                      *)
(***************************************************************************)
\* a rate-limit error as the back-ends report it: the HTTP 429 status
RateLimitMsg(msg) == "429" \in msg

\* tiers whose call raised a rate-limit error
RateLimitedTiers(raised) == {r[1] : r \in {x \in raised : RateLimitMsg(x[2])}}

HandlerSpeak(o1, o2, o3) ==
    LET r == SpeakResult(groq_daily_limit_hit, elevenlabs_daily_limit_hit,
                         elevenlabs_enabled, o1, o2, o3)
    IN  /\ groq_daily_limit_hit' = r.groq
        /\ elevenlabs_daily_limit_hit' = r.el
        /\ obs' = [ seen |-> TRUE,
                    before |-> [groq |-> groq_daily_limit_hit,
                                el |-> elevenlabs_daily_limit_hit],
                    outs |-> [i \in 1..3 |->
                                 IF i \in Range(r.attempted) THEN <<o1, o2, o3>>[i]
                                                             ELSE NotCalled],
                    attempted |-> r.attempted,
                    rl |-> RateLimitedTiers(r.raised),
                    prev_rl |-> obs.rl,
                    tier |-> r.tier,
                    file |-> r.file,
                    made |-> r.made,
                    left |-> r.left,
                    resets |-> 0,
                    reset_from |-> [groq |-> FALSE, el |-> FALSE] ]
        /\ UNCHANGED <<elevenlabs_enabled, robotVars, auxVars>>

\* how many reset_daily_limits calls in a row are told apart
MaxResets == 2

\* what is remembered of a run of reset_daily_limits calls
ResetObs ==
    [NoObs EXCEPT !.resets = IF obs.resets < MaxResets THEN obs.resets + 1 ELSE obs.resets,
                  !.reset_from = IF obs.resets = 0
                                 THEN [groq |-> groq_daily_limit_hit,
                                       el |-> elevenlabs_daily_limit_hit]
                                 ELSE obs.reset_from]

ResetGroqOnly ==
    /\ groq_daily_limit_hit' = FALSE
    /\ obs' = ResetObs
    /\ UNCHANGED <<elevenlabs_daily_limit_hit, elevenlabs_enabled, robotVars, auxVars>>

\* HybridTTSHandler.reset_daily_limits
reset_daily_limits ==
    /\ groq_daily_limit_hit' = FALSE
    /\ elevenlabs_daily_limit_hit' = FALSE
    /\ obs' = ResetObs
    /\ UNCHANGED <<elevenlabs_enabled, robotVars, auxVars>>

NextTts ==
    \/ \E o1 \in Outcomes(1), o2 \in Outcomes(2), o3 \in Outcomes(3) :
           HandlerSpeak(o1, o2, o3)
    \/ reset_daily_limits

\* the tiers of q above tier n, in the order called
TiersAfter(n, q) == SelectSeq(q, LAMBDA x : x > n)

\* tier i was called by the latest speak call and reported success
CalledOk(i) == i \in Range(obs.attempted) /\ obs.outs[i].kind = "ok"

(***************************************************************************)
(* Claims about HybridTTSHandler (checked under SpecTts).                  *)
(***************************************************************************)
\* C4: once a tier's rate-limited flag is set, a later speak call makes no
\* synthesis call to that tier and leaves the flag set, for as long as
\* reset_daily_limits has not been called.
C4_FlaggedTierNotCalled ==
    obs.seen =>
        /\ obs.before.groq => (1 \notin Range(obs.attempted) /\ groq_daily_limit_hit)
        /\ obs.before.el => (3 \notin Range(obs.attempted) /\ elevenlabs_daily_limit_hit)

\* both flags were set when a speak call started: only Edge was called
C4_Witness ==
    obs.seen /\ obs.before.groq /\ obs.before.el /\ obs.attempted = <<2>>

Succeeded(i) == CalledOk(i) /\ Len(obs.outs[i].bytes) > 0

\* tier i was called by the latest speak call and did not give valid audio
FailedOrInvalid(i) == i \in Range(obs.attempted) /\ ~Succeeded(i)

\* the latest speak call found tier i's skip condition true
SkipConditionHeld(i) ==
    \/ i = 1 /\ obs.before.groq
    \/ i = 3 /\ (~elevenlabs_enabled \/ obs.before.el)

\* C21: speak calls tiers in the order 1, 2, 3; a tier is called only when
\* every tier before it was skipped, failed or wrote invalid audio, and
\* unless its own skip condition holds it is called then; speak returns
\* the file of the lowest tier that was called and succeeded, or None.
C21_FixedOrderFirstSuccess ==
    obs.seen =>
        /\ \A i, j \in 1..Len(obs.attempted) : i < j => obs.attempted[i] < obs.attempted[j]
        /\ \A n \in 1..3 :
              n \in Range(obs.attempted) <=>
                  ( /\ ~SkipConditionHeld(n)
                    /\ \A m \in 1..(n - 1) :
                          (m \notin Range(obs.attempted) /\ SkipConditionHeld(m))
                              \/ FailedOrInvalid(m) )
        /\ \A n \in 1..3 :
              obs.tier = n <=> (Succeeded(n) /\ \A m \in 1..(n - 1) : ~Succeeded(m))
        /\ obs.tier # 0 => obs.file = File(obs.outs[obs.tier].bytes)
        /\ obs.tier = 0 => obs.file = Missing

\* Groq raised, Edge wrote an empty file, ElevenLabs gave the audio
C21_Witness ==
    /\ obs.attempted = <<1, 2, 3>> /\ obs.tier = 3
    /\ obs.outs[1].kind = "raise" /\ obs.outs[2].kind = "ok" /\ obs.outs[2].bytes = Empty

\* tier i reported success in the latest speak call and its file failed the
\* validity check
ReportedOkInvalid(i) == CalledOk(i) /\ Len(obs.outs[i].bytes) = 0

\* C22: when a tier reports success but its file fails the validity check,
\* the file is removed and is not what speak returns, speak goes on to the
\* next tier (which is called unless its own skip condition holds), and
\* the tier's rate-limited flag stays as it was.
C22_InvalidAudioDiscarded ==
    \A i \in 1..3 :
        ReportedOkInvalid(i) =>
            /\ obs.tier # i
            /\ i \notin obs.left
            /\ obs.file.exists => Len(obs.file.bytes) > 0
            /\ (i < 3 /\ ~SkipConditionHeld(i + 1)) => (i + 1) \in Range(obs.attempted)
            /\ i = 1 => groq_daily_limit_hit = obs.before.groq
            /\ i = 3 => elevenlabs_daily_limit_hit = obs.before.el

\* Groq and Edge both reported success with an empty file; ElevenLabs spoke
C22_Witness ==
    /\ ReportedOkInvalid(1) /\ ReportedOkInvalid(2)
    /\ obs.tier = 3 /\ obs.left = {3}

\* C37: when speak returns, the temp files it made are those of the tiers
\* it called, a tier skipped for its flag has none, every file made for a
\* tier that failed or wrote invalid audio is gone, and what is left is the
\* returned file alone, or nothing when speak returns None.
C37_OnlyReturnedFileLeft ==
    obs.seen =>
        /\ obs.made = Range(obs.attempted)
        /\ \A i \in 1..3 : SkipConditionHeld(i) => i \notin obs.made
        /\ \A i \in obs.made : FailedOrInvalid(i) => i \notin obs.left
        /\ obs.left \subseteq obs.made
        /\ obs.left = (IF obs.tier = 0 THEN {} ELSE {obs.tier})
        /\ obs.tier # 0 <=> obs.file.exists

\* Groq was skipped for its flag, Edge raised, and ElevenLabs wrote an
\* empty file: two temp files were made, none is left, speak returned None
C37_Witness ==
    /\ obs.seen /\ obs.before.groq
    /\ obs.attempted = <<2, 3>> /\ obs.outs[2].kind = "raise" /\ ReportedOkInvalid(3)
    /\ obs.made = {2, 3} /\ obs.left = {} /\ obs.tier = 0

\* the handler with back-ends that give good audio or raise any error
NextTtsErr ==
    \/ \E o1 \in ErrorOutcomes(1), o2 \in ErrorOutcomes(2), o3 \in ErrorOutcomes(3) :
           HandlerSpeak(o1, o2, o3)
    \/ reset_daily_limits

SpecTtsErr == InitHandler /\ [][NextTtsErr]_vars

\* a rate-limit error as the specification tells it from the others: an
\* HTTP 429 condition or an explicit quota message
IsRateLimitError(msg) == "429" \in msg \/ "quota" \in msg

\* tier i raised in the latest speak call
Raised(i) == i \in Range(obs.attempted) /\ obs.outs[i].kind = "raise"

C13_ResetClearsAndIsIdempotent ==
    /\ [](ENABLED reset_daily_limits)
    /\ [](obs.resets >= 1 => (~groq_daily_limit_hit /\ ~elevenlabs_daily_limit_hit))
    /\ [][reset_daily_limits =>
             /\ ~groq_daily_limit_hit' /\ ~elevenlabs_daily_limit_hit'
             /\ elevenlabs_enabled' = elevenlabs_enabled
             /\ obs.resets >= 1 => ttsVars' = ttsVars
         ]_vars

\* reset_daily_limits was called twice in a row with both flags set before
C13_Witness ==
    obs.resets = 2 /\ obs.reset_from.groq /\ obs.reset_from.el

SpecTts == InitHandler /\ [][NextTts]_vars

\* the same with few back-end behaviours: good audio, HTTP 429, a network error
FewOutcomes(tier) ==
    { o \in Outcomes(tier) :
        \/ o.kind = "ok" /\ CorrectSignatureOf(tier, o.bytes)
        \/ o.kind = "raise" /\ o.msg \in {{"error", "code", "429"}, {"connection", "timeout"}} }

\* the application keeps asking for speech; nothing in it calls
\* reset_daily_limits, which is left to an operator
SpeakCalled ==
    \E o1 \in FewOutcomes(1), o2 \in FewOutcomes(2), o3 \in FewOutcomes(3) :
        HandlerSpeak(o1, o2, o3)

NextTtsFew ==
    \/ \E o1 \in FewOutcomes(1), o2 \in FewOutcomes(2), o3 \in FewOutcomes(3) :
           HandlerSpeak(o1, o2, o3)
    \/ reset_daily_limits

SpecTtsFair == InitHandler /\ [][NextTtsFew]_vars /\ WF_vars(SpeakCalled)

(***************************************************************************)
(* PepperRobot: the LED priority state machine.                            *)
(***************************************************************************)
NeverEntersSpeaking(state) == FALSE

NeverOwnsSpeaking(state) == FALSE

OwnsWhenIdle(state) == state = "idle"

AlwaysOwnsSpeaking(state) == TRUE

\* _enter_led_speaking's test under _led_lock: thinking outranks speaking
MayEnterSpeaking(state) == state # "thinking"

\* _exit_led_speaking's test under _led_lock
OwnsSpeaking(state) == state = "speaking"

(***************************************************************************)
(* PepperRobot: the speech lock.  acquire(timeout=...) returns True as     *)
(* soon as the lock is free, and False once the timeout has run out while  *)
(* another thread held it.                                                 *)
(***************************************************************************)
AlwaysFree(lock) == TRUE

LockFree(lock) == lock = 0

WaitsForever(lock) == FALSE

KeepsLock(lock) == lock

\* threading.Lock.release()
LockReleased(lock) == 0

LockWaitExpires(lock) == lock # 0

(***************************************************************************)
(* A thread calls one of the three public speech methods.                  *)
(***************************************************************************)
NotRunning(t) == th[t].pc \in {"idle", "done"} /\ anim[t] = "dead"

\* speak_hq(text, tts_handler, emotion): up to the call of tts_handler.speak
CallSpeakHq(t, e) ==
    /\ NotRunning(t)
    /\ th' = [th EXCEPT ![t] = [IdleThread EXCEPT !.pc = "gen", !.mode = "hq",
                                                  !.emotion = e]]
    /\ UNCHANGED <<ttsVars, obs, auxVars, speech_lock, ledVars, thinkVars, animVars>>

\* play_audio_file(file_path, emotion_color) called directly
CallPlayAudioFile(t, c) ==
    /\ NotRunning(t)
    /\ th' = [th EXCEPT ![t] = [IdleThread EXCEPT !.pc = "transfer", !.mode = "play",
                                                  !.colour = c]]
    /\ UNCHANGED <<ttsVars, obs, auxVars, speech_lock, ledVars, thinkVars, animVars>>

\* speak(text) called directly
CallSpeak(t) ==
    /\ NotRunning(t)
    /\ th' = [th EXCEPT ![t] = [IdleThread EXCEPT !.pc = "say_acquire", !.mode = "speak"]]
    /\ UNCHANGED <<ttsVars, obs, auxVars, speech_lock, ledVars, thinkVars, animVars>>

(***************************************************************************)
(* speak_hq.                                                               *)
(***************************************************************************)
\* the thread once play_audio_file has returned ok: a direct call returns;
\* speak_hq returns True, or goes on to "self.speak(text); return False"
AfterPlayAudioFile(s, ok) ==
    IF s.mode = "play" THEN Returned(ok)
    ELSE [s EXCEPT !.remote = FALSE, !.result = ok, !.colour = "blue", !.entered = FALSE,
                   !.pc = IF ok THEN "hq_finally" ELSE "say_acquire"]

\* audio_path = tts_handler.speak(text, emotion=emotion); "if audio_path:
\* emotion_color = self.EMOTION_COLOUR_MAP.get(emotion or "", "blue")"
Generate(t, o1, o2, o3) ==
    LET r == SpeakResult(groq_daily_limit_hit, elevenlabs_daily_limit_hit,
                         elevenlabs_enabled, o1, o2, o3)
    IN  /\ th[t].pc = "gen"
        /\ groq_daily_limit_hit' = r.groq
        /\ elevenlabs_daily_limit_hit' = r.el
        /\ th' = [th EXCEPT ![t].path = r.tier,
                            ![t].local = r.tier # 0,
                            ![t].emotion = "none",
                            ![t].colour = IF r.tier # 0 THEN EmotionColour(th[t].emotion)
                                                        ELSE "blue",
                            ![t].pc = IF r.tier # 0 THEN "transfer" ELSE "say_acquire"]
        /\ UNCHANGED <<elevenlabs_enabled, obs, auxVars, speech_lock, ledVars, thinkVars, animVars>>

KeepsLocalFile(path, local) == local

\* speak_hq's finally: "if audio_path: os.remove(audio_path)"
LocalAfterFinally(path, local) == IF path # 0 THEN FALSE ELSE local

\* speak_hq's "return True" / "return False" and its finally block
HqFinally(t) ==
    /\ th[t].pc = "hq_finally"
    /\ th' = [th EXCEPT ![t] = [Returned(th[t].result) EXCEPT
                                   !.local = LocalAfterFinally(th[t].path, th[t].local)]]
    /\ UNCHANGED <<ttsVars, obs, auxVars, speech_lock, ledVars, thinkVars, animVars>>

(***************************************************************************)
(* play_audio_file.                                                        *)
(***************************************************************************)
\* Phase 1: _transfer_to_robot(file_path); "if not remote_path: return False"
Transfer(t, ok) ==
    /\ th[t].pc = "transfer"
    /\ LET s == [th[t] EXCEPT !.xfers = @ + 1, !.remote = ok]
       IN  th' = [th EXCEPT ![t] =
                      IF ok THEN [s EXCEPT !.pc = "acquire"]
                            ELSE AfterPlayAudioFile([s EXCEPT !.fail = "transfer"], FALSE)]
    /\ UNCHANGED <<ttsVars, obs, auxVars, speech_lock, ledVars, thinkVars, animVars>>

\* Phase 2: acquired = self._speech_lock.acquire(timeout=lock_timeout), acquired
AcquireOk(t) ==
    /\ th[t].pc = "acquire"
    /\ LockFree(speech_lock)
    /\ speech_lock' = t
    /\ th' = [th EXCEPT ![t].pc = "enter_led"]
    /\ UNCHANGED <<ttsVars, obs, auxVars, ledVars, thinkVars, animVars>>

\* "if not acquired": _cleanup_remote(remote_path); return False
AcquireTimeout(t) ==
    /\ th[t].pc = "acquire"
    /\ LockWaitExpires(speech_lock)
    /\ th' = [th EXCEPT ![t] = AfterPlayAudioFile([th[t] EXCEPT !.fail = "lock"], FALSE)]
    /\ UNCHANGED <<ttsVars, obs, auxVars, speech_lock, ledVars, thinkVars, animVars>>

\* _enter_led_speaking(emotion_color), the part under _led_lock
EnterLedSpeaking(t) ==
    /\ th[t].pc = "enter_led"
    /\ IF MayEnterSpeaking(led_state)
       THEN /\ led_state' = "speaking"
            /\ led_emotion_color' = th[t].colour
            /\ th' = [th EXCEPT ![t].pc = "enter_write", ![t].entered = TRUE]
       ELSE /\ UNCHANGED <<led_state, led_emotion_color>>
            /\ th' = [th EXCEPT ![t].pc = "load"]
    /\ UNCHANGED <<ttsVars, obs, auxVars, speech_lock, eye, thinkVars, animVars>>

\* _enter_led_speaking: self.set_eye_color(emotion_color), after the lock
EnterLedWrite(t) ==
    /\ th[t].pc = "enter_write"
    /\ eye' = th[t].colour
    /\ th' = [th EXCEPT ![t].pc = "load"]
    /\ UNCHANGED <<ttsVars, obs, auxVars, speech_lock, led_state, led_emotion_color,
                   thinkVars, animVars>>

\* player = session.service("ALAudioPlayer"); file_id = player.loadFile(...)
\* raises, or: _is_speaking_hq = True; anim_thread.start(); player.play(file_id)
\* is entered
LoadAndPlay(t, ok) ==
    /\ th[t].pc = "load"
    /\ IF ok
       THEN /\ is_speaking_hq' = TRUE
            /\ anim' = [anim EXCEPT ![t] = "top"]
            /\ th' = [th EXCEPT ![t].pc = "playing", ![t].plays = @ + 1]
       ELSE /\ UNCHANGED animVars
            /\ th' = [th EXCEPT ![t].pc = "finally", ![t].fail = "load"]
    /\ UNCHANGED <<ttsVars, obs, auxVars, speech_lock, ledVars, thinkVars>>

\* player.play(file_id) returns ("return True") or raises ("return False")
PlayReturns(t, ok) ==
    /\ th[t].pc = "playing"
    /\ th' = [th EXCEPT ![t].pc = "finally", ![t].result = ok,
                        ![t].fail = IF ok THEN @ ELSE "play"]
    /\ UNCHANGED <<ttsVars, obs, auxVars, speech_lock, ledVars, thinkVars, animVars>>

\* finally: self._is_speaking_hq = False
StopAnim(t) ==
    /\ th[t].pc = "finally"
    /\ is_speaking_hq' = FALSE
    /\ th' = [th EXCEPT ![t].pc = "join"]
    /\ UNCHANGED <<ttsVars, obs, auxVars, speech_lock, ledVars, thinkVars, anim>>

\* finally: "if self._anim_thread and self._anim_thread.is_alive():
\* self._anim_thread.join(timeout=3.0)"; the thread has ended
JoinAnim(t) ==
    /\ th[t].pc = "join"
    /\ anim[t] = "dead"
    /\ th' = [th EXCEPT ![t].pc = "exit_led"]
    /\ UNCHANGED <<ttsVars, obs, auxVars, speech_lock, ledVars, thinkVars, animVars>>

\* finally: join(timeout=3.0) gives up on a thread that is still alive
JoinTimeout(t) ==
    /\ th[t].pc = "join"
    /\ anim[t] # "dead"
    /\ th' = [th EXCEPT ![t].pc = "exit_led"]
    /\ UNCHANGED <<ttsVars, obs, auxVars, speech_lock, ledVars, thinkVars, animVars>>

\* finally: _exit_led_speaking(), the part under _led_lock
ExitLedSpeaking(t) ==
    /\ th[t].pc = "exit_led"
    /\ IF OwnsSpeaking(led_state)
       THEN /\ led_state' = "idle"
            /\ led_emotion_color' = "blue"
            /\ th' = [th EXCEPT ![t].pc = "exit_write"]
       ELSE /\ UNCHANGED <<led_state, led_emotion_color>>
            /\ th' = [th EXCEPT ![t].pc = "cleanup"]
    /\ UNCHANGED <<ttsVars, obs, auxVars, speech_lock, eye, thinkVars, animVars>>

\* _exit_led_speaking: "if state_was_speaking: self.set_eye_color("blue")"
ExitLedWrite(t) ==
    /\ th[t].pc = "exit_write"
    /\ eye' = "blue"
    /\ th' = [th EXCEPT ![t].pc = "cleanup"]
    /\ UNCHANGED <<ttsVars, obs, auxVars, speech_lock, led_state, led_emotion_color,
                   thinkVars, animVars>>

\* finally: _cleanup_remote(remote_path)
CleanupRemote(t) ==
    /\ th[t].pc = "cleanup"
    /\ th' = [th EXCEPT ![t].remote = FALSE, ![t].pc = "release"]
    /\ UNCHANGED <<ttsVars, obs, auxVars, speech_lock, ledVars, thinkVars, animVars>>

\* finally: self._speech_lock.release(); play_audio_file returns
ReleaseAfterPlay(t) ==
    /\ th[t].pc = "release"
    /\ speech_lock' = LockReleased(speech_lock)
    /\ th' = [th EXCEPT ![t] = AfterPlayAudioFile(th[t], th[t].result)]
    /\ UNCHANGED <<ttsVars, obs, auxVars, ledVars, thinkVars, animVars>>

(***************************************************************************)
(* speak: the built-in NAOqi voice.                                        *)
(***************************************************************************)
\* the thread once speak has returned (None): a direct call returns;
\* speak_hq goes on to "return False"
AfterSpeak(s) ==
    IF s.mode = "speak" THEN Returned(FALSE)
    ELSE [s EXCEPT !.pc = "hq_finally", !.result = FALSE]

\* acquired = self._speech_lock.acquire(timeout=3.0), acquired; say is entered
SayAcquireOk(t) ==
    /\ th[t].pc = "say_acquire"
    /\ LockFree(speech_lock)
    /\ speech_lock' = t
    /\ th' = [th EXCEPT ![t].pc = "saying", ![t].says = @ + 1]
    /\ UNCHANGED <<ttsVars, obs, auxVars, ledVars, thinkVars, animVars>>

\* "if not acquired: ... return"
SayAcquireTimeout(t) ==
    /\ th[t].pc = "say_acquire"
    /\ LockWaitExpires(speech_lock)
    /\ th' = [th EXCEPT ![t] = AfterSpeak(th[t])]
    /\ UNCHANGED <<ttsVars, obs, auxVars, speech_lock, ledVars, thinkVars, animVars>>

SayKeepsLock(lock) == lock

\* speak's "finally: self._speech_lock.release()"
SayLockReleased(lock) == 0

\* animated_speech.say / tts.say returns or raises (caught); finally: release
SayReturns(t) ==
    /\ th[t].pc = "saying"
    /\ speech_lock' = SayLockReleased(speech_lock)
    /\ th' = [th EXCEPT ![t] = AfterSpeak(th[t])]
    /\ UNCHANGED <<ttsVars, obs, auxVars, ledVars, thinkVars, animVars>>

(***************************************************************************)
(* _hq_speech_animation_loop, the HQSpeechAnim thread.                     *)
(***************************************************************************)
\* "while self._is_speaking_hq:" (also the polling loop's test)
AnimCheck(t) ==
    /\ anim[t] = "top"
    /\ anim' = [anim EXCEPT ![t] = IF is_speaking_hq THEN "write" ELSE "dead"]
    /\ UNCHANGED <<ttsVars, obs, auxVars, speech_lock, ledVars, thinkVars, is_speaking_hq, th>>

\* "with self._led_lock: color = self._led_emotion_color" then set_eye_color(color)
AnimWrite(t) ==
    /\ anim[t] = "write"
    /\ eye' = led_emotion_color
    /\ anim' = [anim EXCEPT ![t] = "top"]
    /\ UNCHANGED <<ttsVars, obs, auxVars, speech_lock, led_state, led_emotion_color,
                   thinkVars, is_speaking_hq, th>>

(***************************************************************************)
(* thinking_indicator and _pulse_thinking_loop, the ThinkingPulse thread.  *)
(***************************************************************************)
\* thinking_indicator(start=True): _thinking = True; _enter_led_thinking();
\* start the pulse thread unless one is alive
ThinkStart ==
    /\ think_pc \in {"idle", "active"}
    /\ thinking' = TRUE
    /\ led_state' = "thinking"
    /\ think_pc' = "active"
    /\ IF pulse_pc = "dead"
       THEN pulse_pc' = "top" /\ pulse_idx' = 0
       ELSE UNCHANGED <<pulse_pc, pulse_idx>>
    /\ UNCHANGED <<ttsVars, obs, auxVars, speech_lock, led_emotion_color, eye, animVars, th>>

AlwaysOwnsThinking(state) == TRUE

\* _exit_led_thinking's test under _led_lock
OwnsThinking(state) == state = "thinking"

\* thinking_indicator(start=False): _thinking = False; _exit_led_thinking()
\* under _led_lock; the method is public and may be called with no
\* thinking_indicator(start=True) before it
ThinkStop ==
    /\ think_pc \in {"idle", "active"}
    /\ thinking' = FALSE
    /\ led_state' = IF OwnsThinking(led_state) THEN "idle" ELSE led_state
    /\ think_pc' = "exit_write"
    /\ UNCHANGED <<ttsVars, obs, auxVars, speech_lock, led_emotion_color, eye, pulse_pc,
                   pulse_idx, animVars, th>>

\* _exit_led_thinking: self.set_eye_color("blue")
ThinkStopWrite ==
    /\ think_pc = "exit_write"
    /\ eye' = "blue"
    /\ think_pc' = "idle"
    /\ UNCHANGED <<ttsVars, obs, auxVars, speech_lock, led_state, led_emotion_color,
                   thinking, pulse_pc, pulse_idx, animVars, th>>

\* "while self._thinking:" and "if self._led_state != "thinking": break"
PulseCheck ==
    /\ pulse_pc = "top"
    /\ pulse_pc' = IF thinking /\ led_state = "thinking" THEN "write" ELSE "dead"
    /\ UNCHANGED <<ttsVars, obs, auxVars, speech_lock, ledVars, thinking, think_pc,
                   pulse_idx, animVars, th>>

\* self.set_eye_color(colours[idx % 2]); idx += 1
PulseWrite ==
    /\ pulse_pc = "write"
    /\ eye' = IF pulse_idx = 0 THEN "blue" ELSE "off"
    /\ pulse_idx' = 1 - pulse_idx
    /\ pulse_pc' = "top"
    /\ UNCHANGED <<ttsVars, obs, auxVars, speech_lock, led_state, led_emotion_color,
                   thinking, think_pc, animVars, th>>

(***************************************************************************)
(* The robot with concurrent callers of its three speech methods.          *)
(***************************************************************************)
\* for each setting of the two daily-limit flags and elevenlabs_enabled, one
\* triple of back-end outcomes for every result tts_handler.speak can have
\* as speak_hq reads it (the path's tier and the two flags afterwards):
\* Generate's step depends on the outcomes through that result alone
DistinctOutcomes ==
    LET Triples == Outcomes(1) \X Outcomes(2) \X Outcomes(3)
        Read(flags, o) ==
            LET r == SpeakResult(flags[1], flags[2], flags[3], o[1], o[2], o[3])
            IN  <<r.groq, r.el, r.tier>>
    IN  UNION { { <<flags, CHOOSE o \in Triples : Read(flags, o) = r>> :
                      r \in { Read(flags, o) : o \in Triples } } :
                flags \in BOOLEAN \X BOOLEAN \X BOOLEAN }

Next ==
    \/ \E t \in Threads, e \in Emotions : CallSpeakHq(t, e)
    \/ \E t \in Threads, e \in Emotions : CallPlayAudioFile(t, EmotionColour(e))
    \/ \E t \in Threads : CallSpeak(t)
    \/ \E t \in Threads, d \in DistinctOutcomes :
           /\ d[1] = <<groq_daily_limit_hit, elevenlabs_daily_limit_hit, elevenlabs_enabled>>
           /\ Generate(t, d[2][1], d[2][2], d[2][3])
    \/ \E t \in Threads, ok \in BOOLEAN : Transfer(t, ok)
    \/ \E t \in Threads : AcquireOk(t)
    \/ \E t \in Threads : AcquireTimeout(t)
    \/ \E t \in Threads : EnterLedSpeaking(t)
    \/ \E t \in Threads : EnterLedWrite(t)
    \/ \E t \in Threads, ok \in BOOLEAN : LoadAndPlay(t, ok)
    \/ \E t \in Threads, ok \in BOOLEAN : PlayReturns(t, ok)
    \/ \E t \in Threads : StopAnim(t)
    \/ \E t \in Threads : JoinAnim(t)
    \/ \E t \in Threads : JoinTimeout(t)
    \/ \E t \in Threads : ExitLedSpeaking(t)
    \/ \E t \in Threads : ExitLedWrite(t)
    \/ \E t \in Threads : CleanupRemote(t)
    \/ \E t \in Threads : ReleaseAfterPlay(t)
    \/ \E t \in Threads : SayAcquireOk(t)
    \/ \E t \in Threads : SayAcquireTimeout(t)
    \/ \E t \in Threads : SayReturns(t)
    \/ \E t \in Threads : HqFinally(t)
    \/ \E t \in Threads : AnimCheck(t)
    \/ \E t \in Threads : AnimWrite(t)

Spec == Init /\ [][Next]_vars

\* Lock.acquire(timeout=...) returns within its timeout, with or without the
\* lock, and a thread that is not inside a network or hardware call runs on.
\* Nothing makes synthesis, the transfer, loadFile, play or say return.
SpecFair ==
    /\ Init
    /\ [][Next]_vars
    /\ \A t \in Threads :
           /\ WF_vars(AcquireOk(t) \/ AcquireTimeout(t))
           /\ WF_vars(SayAcquireOk(t) \/ SayAcquireTimeout(t))
           /\ WF_vars(HqFinally(t))

(***************************************************************************)
(* Claims about the speech lock (checked under Spec and SpecFair).         *)
(***************************************************************************)
InPlayback(t) == th[t].pc \in {"playing", "saying"}

WaitsForLock(t) == th[t].pc \in {"acquire", "say_acquire"}

\* C1: at most one thread is inside ALAudioPlayer.play, animated_speech.say
\* or tts.say at any time, and that thread holds the speech lock.
C1_OnePlaybackAtATime ==
    /\ Cardinality({t \in Threads : InPlayback(t)}) <= 1
    /\ \A t \in Threads : InPlayback(t) => speech_lock = t

\* one thread plays while another waits for the lock
C1_Witness ==
    \E t, u \in Threads : th[t].pc = "playing" /\ WaitsForLock(u)

\* C2: a call waiting for the speech lock stops waiting; while another
\* thread keeps the lock for ever the waiting call returns, and returns
\* False; a call whose acquire timed out has played nothing through
\* ALAudioPlayer and its play_audio_file returned False.
C2_WaitIsBounded ==
    /\ \A t \in Threads :
           /\ (th[t].pc = "acquire") ~> (th[t].pc # "acquire")
           /\ (th[t].pc = "say_acquire") ~> (th[t].pc # "say_acquire")
    /\ \A t \in Threads : \A u \in Threads \ {t} :
           (WaitsForLock(t) /\ speech_lock = u)
               ~> (speech_lock # u \/ (th[t].pc = "done" /\ ~th[t].result))
    /\ [](\A t \in Threads : th[t].fail = "lock" => (th[t].plays = 0 /\ ~th[t].result))

\* a call gave up waiting while the other thread was still playing
C2_Witness ==
    \E t, u \in Threads : th[t].fail = "lock" /\ th[u].pc = "playing" /\ speech_lock = u

\* C3 as stated: a speak_hq call whose play_audio_file could not get the
\* speech lock in time performs no playback of any kind afterwards.
C3_Orig_DroppedAfterTimeout ==
    \A t \in Threads : th[t].fail = "lock" => (th[t].says = 0 /\ ~InPlayback(t))

\* every tier is skipped, raises, or writes a file the validity check rejects
AllTiersFail(gflag, eflag, enabled, o1, o2, o3) ==
    /\ gflag \/ o1.kind = "raise" \/ ~ValidAudio(File(o1.bytes))
    /\ o2.kind = "raise" \/ ~ValidAudio(File(o2.bytes))
    /\ ~enabled \/ eflag \/ o3.kind = "raise" \/ ~ValidAudio(File(o3.bytes))

\* C18: the local file speak returned to speak_hq exists from then until
\* speak_hq's finally block and is gone once speak_hq has returned,
\* whether playback succeeded, the transfer failed, the lock wait timed
\* out, the player raised, or the built-in voice was used.
C18_LocalFileDeleted ==
    /\ [](\A t \in Threads :
             /\ th[t].pc = "done" => ~th[t].local
             /\ (th[t].mode = "hq" /\ th[t].path # 0 /\ th[t].pc \notin {"gen", "done"})
                    => th[t].local)
    /\ [][\A t \in Threads : HqFinally(t) => ~th'[t].local]_vars

\* the lock wait timed out, the built-in voice spoke, and speak_hq is
\* about to return with the file still there
C18_Witness ==
    \E t \in Threads :
        /\ th[t].pc = "hq_finally" /\ th[t].local
        /\ th[t].fail = "lock" /\ th[t].says = 1

\* C20: a thread inside HybridTTSHandler.speak or inside _transfer_to_robot
\* never holds _speech_lock; and when every other thread is inside synthesis
\* or transfer (however long it stays there), a thread waiting for the
\* lock can take it at once.
C20_GuardFreeOfSynthesisAndTransfer ==
    /\ \A t \in Threads : th[t].pc \in {"gen", "transfer"} => speech_lock # t
    /\ \A u \in Threads :
          (/\ th[u].pc = "acquire"
           /\ \A t \in Threads \ {u} : th[t].pc \in {"gen", "transfer"})
             => ENABLED AcquireOk(u)

\* one thread is playing under the lock while another is still inside the
\* transfer of its own speak_hq call
C20_Witness ==
    \E t, u \in Threads :
        /\ t # u
        /\ th[t].pc = "transfer" /\ th[t].mode = "hq"
        /\ th[u].pc = "playing" /\ speech_lock = u

\* C7: when every tier is skipped, fails or writes invalid audio, speak
\* returns None; speak_hq then makes no transfer and no ALAudioPlayer
\* playback (only the built-in voice is tried) and returns False.
C7_TotalFailure ==
    /\ [](\A t \in Threads :
             (th[t].mode = "hq" /\ th[t].pc # "gen" /\ th[t].path = 0) =>
                 /\ th[t].pc \in {"say_acquire", "saying", "hq_finally"}
                 /\ th[t].xfers = 0 /\ th[t].plays = 0
                 /\ ~th[t].remote /\ ~th[t].result)
    /\ [][\A t \in Threads :
             /\ th[t].pc = "gen" =>
                 \A o1 \in Outcomes(1), o2 \in Outcomes(2), o3 \in Outcomes(3) :
                    ( /\ Generate(t, o1, o2, o3)
                      /\ AllTiersFail(groq_daily_limit_hit, elevenlabs_daily_limit_hit,
                                      elevenlabs_enabled, o1, o2, o3) )
                        => (th'[t].path = 0 /\ th'[t].pc = "say_acquire")
             /\ (th[t].pc = "hq_finally" /\ th[t].path = 0 /\ th'[t].pc = "done")
                    => ~th'[t].result
       ]_vars

\* speak returned None, the built-in voice spoke, speak_hq is about to return
C7_Witness ==
    \E t \in Threads :
        /\ th[t].mode = "hq" /\ th[t].pc = "hq_finally"
        /\ th[t].path = 0 /\ th[t].says = 1

(***************************************************************************)
(* One caller of speak_hq, nothing else running.                           *)
(***************************************************************************)
Solo == {1}

NextSingle ==
    \/ \E t \in Solo, e \in Emotions : CallSpeakHq(t, e)
    \/ \E t \in Solo, o1 \in Outcomes(1), o2 \in Outcomes(2), o3 \in Outcomes(3) :
           Generate(t, o1, o2, o3)
    \/ \E t \in Solo, ok \in BOOLEAN : Transfer(t, ok)
    \/ \E t \in Solo : AcquireOk(t)
    \/ \E t \in Solo : EnterLedSpeaking(t)
    \/ \E t \in Solo : EnterLedWrite(t)
    \/ \E t \in Solo, ok \in BOOLEAN : LoadAndPlay(t, ok)
    \/ \E t \in Solo, ok \in BOOLEAN : PlayReturns(t, ok)
    \/ \E t \in Solo : StopAnim(t)
    \/ \E t \in Solo : JoinAnim(t)
    \/ \E t \in Solo : JoinTimeout(t)
    \/ \E t \in Solo : ExitLedSpeaking(t)
    \/ \E t \in Solo : ExitLedWrite(t)
    \/ \E t \in Solo : CleanupRemote(t)
    \/ \E t \in Solo : ReleaseAfterPlay(t)
    \/ \E t \in Solo : SayAcquireOk(t)
    \/ \E t \in Solo : SayReturns(t)
    \/ \E t \in Solo : HqFinally(t)
    \/ \E t \in Solo : AnimCheck(t)
    \/ \E t \in Solo : AnimWrite(t)

SpecSingle == Init /\ [][NextSingle]_vars

(***************************************************************************)
(* Claims about a single utterance (checked under SpecSingle).             *)
(***************************************************************************)
\* a speak_hq call whose audio came from tier 1 and in which nothing failed
HappyPath(t) == th[t].mode = "hq" /\ th[t].path = 1 /\ th[t].fail = "none"

\* C10: a single speak_hq call from idle in which tier 1 yields valid audio,
\* the transfer succeeds and the player does not raise: the LED state is
\* idle up to _enter_led_speaking, speaking from there to
\* _exit_led_speaking, idle afterwards; ALAudioPlayer.play is entered
\* exactly once, the built-in voice is not used, and the call returns True.
C10_HappyPath ==
    /\ [](\A t \in Solo :
             /\ th[t].pc \in {"idle", "done", "gen"} => led_state = "idle"
             /\ HappyPath(t) =>
                    /\ th[t].pc \in {"transfer", "acquire", "enter_led"}
                           => (led_state = "idle" /\ th[t].plays = 0)
                    /\ th[t].pc \in {"enter_write", "load"}
                           => (led_state = "speaking" /\ th[t].plays = 0)
                    /\ th[t].pc \in {"playing", "finally", "join", "exit_led"}
                           => (led_state = "speaking" /\ th[t].plays = 1)
                    /\ th[t].pc \in {"exit_write", "cleanup", "release", "hq_finally"}
                           => (led_state = "idle" /\ th[t].plays = 1)
                    /\ th[t].pc = "hq_finally" => th[t].result
                    /\ th[t].says = 0 /\ th[t].pc \notin {"say_acquire", "saying"})
    /\ [][\A t \in Solo :
             (HappyPath(t) /\ th[t].pc = "hq_finally" /\ th'[t].pc = "done")
                 => th'[t].result
       ]_vars

C10_Witness ==
    \E t \in Solo :
        HappyPath(t) /\ th[t].pc = "hq_finally" /\ th[t].plays = 1 /\ th[t].result

(***************************************************************************)
(* One caller of play_audio_file, with the thinking indicator switched on  *)
(* and off by the callers of thinking_indicator.                          *)
(***************************************************************************)
NextLed ==
    \/ \E t \in Solo, e \in Emotions : CallPlayAudioFile(t, EmotionColour(e))
    \/ \E t \in Solo, ok \in BOOLEAN : Transfer(t, ok)
    \/ \E t \in Solo : AcquireOk(t)
    \/ \E t \in Solo : EnterLedSpeaking(t)
    \/ \E t \in Solo : EnterLedWrite(t)
    \/ \E t \in Solo, ok \in BOOLEAN : LoadAndPlay(t, ok)
    \/ \E t \in Solo, ok \in BOOLEAN : PlayReturns(t, ok)
    \/ \E t \in Solo : StopAnim(t)
    \/ \E t \in Solo : JoinAnim(t)
    \/ \E t \in Solo : JoinTimeout(t)
    \/ \E t \in Solo : ExitLedSpeaking(t)
    \/ \E t \in Solo : ExitLedWrite(t)
    \/ \E t \in Solo : CleanupRemote(t)
    \/ \E t \in Solo : ReleaseAfterPlay(t)
    \/ \E t \in Solo : AnimCheck(t)
    \/ \E t \in Solo : AnimWrite(t)
    \/ ThinkStart
    \/ ThinkStop
    \/ ThinkStopWrite
    \/ PulseCheck
    \/ PulseWrite

SpecLed == Init /\ [][NextLed]_vars

(***************************************************************************)
(* One playback whose eye writes can fail: leds.fadeRGB raises inside      *)
(* set_eye_color.                                                          *)
(***************************************************************************)
LedErrorRaises(next) == "finally"

\* set_eye_color: "except Exception as e: logging.error(...)": the caller
\* goes on with its next statement
AfterLedError(next) == next

\* _enter_led_speaking: set_eye_color(emotion_color), fadeRGB raises
EnterLedWriteFails(t) ==
    /\ th[t].pc = "enter_write"
    /\ th' = [th EXCEPT ![t].pc = AfterLedError("load"), ![t].ledfail = @ \cup {"enter"}]
    /\ UNCHANGED <<ttsVars, obs, auxVars, speech_lock, ledVars, thinkVars, animVars>>

\* the animation loop's set_eye_color(color), fadeRGB raises
AnimWriteFails(t) ==
    /\ anim[t] = "write"
    /\ anim' = [anim EXCEPT ![t] = "top"]
    /\ th' = [th EXCEPT ![t].ledfail = @ \cup {"anim"}]
    /\ UNCHANGED <<ttsVars, obs, auxVars, speech_lock, ledVars, thinkVars, is_speaking_hq>>

\* _exit_led_speaking: set_eye_color("blue"), fadeRGB raises
ExitLedWriteFails(t) ==
    /\ th[t].pc = "exit_write"
    /\ th' = [th EXCEPT ![t].pc = AfterLedError("cleanup"), ![t].ledfail = @ \cup {"exit"}]
    /\ UNCHANGED <<ttsVars, obs, auxVars, speech_lock, ledVars, thinkVars, animVars>>

\* one step of the thread that called play_audio_file
PlayStep(t) ==
    \/ \E ok \in BOOLEAN : Transfer(t, ok)
    \/ AcquireOk(t)
    \/ EnterLedSpeaking(t)
    \/ EnterLedWrite(t)
    \/ EnterLedWriteFails(t)
    \/ \E ok \in BOOLEAN : LoadAndPlay(t, ok)
    \/ \E ok \in BOOLEAN : PlayReturns(t, ok)
    \/ StopAnim(t)
    \/ JoinAnim(t)
    \/ JoinTimeout(t)
    \/ ExitLedSpeaking(t)
    \/ ExitLedWrite(t)
    \/ ExitLedWriteFails(t)
    \/ CleanupRemote(t)
    \/ ReleaseAfterPlay(t)

NextLedFail ==
    \/ \E t \in Solo, e \in Emotions : CallPlayAudioFile(t, EmotionColour(e))
    \/ \E t \in Solo : PlayStep(t)
    \/ \E t \in Solo : AnimCheck(t)
    \/ \E t \in Solo : AnimWrite(t)
    \/ \E t \in Solo : AnimWriteFails(t)

SpecLedFail == Init /\ [][NextLedFail]_vars

\* the calling thread is scheduled and the transfer, loadFile and play
\* return or raise
SpecLedFailFair == SpecLedFail /\ \A t \in Solo : WF_vars(PlayStep(t))

\* C34: an eye write that fails during a playback changes nothing but the
\* eyes: the caller goes on with its next statement, play_audio_file
\* returns True unless loadFile or play raised, and the call ends with
\* the speech lock released.
C34_LedFailureHarmless ==
    /\ [](\A t \in Solo : th[t].pc = "release" =>
              (speech_lock = t /\ (th[t].result <=> th[t].fail = "none")))
    /\ [][\A t \in Solo :
            /\ EnterLedWriteFails(t) => th'[t].pc = "load"
            /\ ExitLedWriteFails(t) => th'[t].pc = "cleanup"
            /\ AnimWriteFails(t) =>
                   (th'[t].pc = th[t].pc /\ th'[t].result = th[t].result /\ anim'[t] = "top")
            /\ (EnterLedWriteFails(t) \/ ExitLedWriteFails(t) \/ AnimWriteFails(t)) =>
                   UNCHANGED <<speech_lock, led_state, is_speaking_hq>>
            /\ ReleaseAfterPlay(t) =>
                   (speech_lock' = 0 /\ th'[t].pc = "done" /\ th'[t].result = th[t].result)
        ]_vars
    /\ \A t \in Solo :
          (th[t].ledfail # {} /\ th[t].pc \notin {"idle", "done"})
              ~> (th[t].pc = "done" /\ speech_lock = 0)

\* all three eye writes of a playback failed; play returned, and
\* play_audio_file is about to release the lock and return True
C34_Witness ==
    \E t \in Solo :
        /\ th[t].pc = "release" /\ th[t].result
        /\ th[t].ledfail = {"enter", "anim", "exit"}

(***************************************************************************)
(* Claims about the LED state machine (checked under SpecLed).             *)
(***************************************************************************)
\* C9 as stated: while the LED state is thinking, neither _enter_led_speaking
\* nor the playback that play_audio_file starts after it was refused changes
\* the eye colour or the LED state.
C9_Orig_ThinkingNotDisturbed ==
    [][\A t \in Threads :
          ( /\ led_state = "thinking"
            /\ \/ EnterLedSpeaking(t)
               \/ (AnimWrite(t) /\ th[t].pc = "playing" /\ ~th[t].entered) )
              => (eye' = eye /\ led_state' = "thinking")
      ]_vars

\* C26 as stated: while the LED state is thinking the animation loop makes
\* no eye write, and every change of the eye colour is the thinking
\* pulse's.
C26_Orig_ThinkingOwnsEyes ==
    [][led_state = "thinking" =>
          /\ \A t \in Solo : ~AnimWrite(t)
          /\ eye' # eye => PulseWrite
      ]_vars

\* C33 as stated: once thinking_indicator(start=False) has written blue
\* to the eyes, the pulse thread writes nothing more to them.
C33_Orig_NoPulseAfterReset ==
    [][PulseWrite => (thinking \/ think_pc = "exit_write")]_vars

\* play_audio_file by thread t is between its _enter_led_speaking and the
\* end of its _exit_led_speaking, under the speech lock
SpeakingSpan(t) ==
    /\ speech_lock = t
    /\ th[t].pc \in {"enter_write", "load", "playing", "finally", "join", "exit_led"}

\* C36: the LED state is speaking only while a thread that holds the
\* speech lock is inside play_audio_file between entering and exiting
\* speaking, whatever thinking_indicator does meanwhile; once
\* play_audio_file has passed its _exit_led_speaking the state is not
\* speaking.
C36_SpeakingOnlyUnderGuard ==
    /\ [](led_state = "speaking" => \E t \in Threads : SpeakingSpan(t) /\ th[t].entered)
    /\ [](\A t \in Solo : th[t].pc \in {"exit_write", "cleanup", "release", "done"} =>
              led_state # "speaking")
    /\ [][\A t \in Solo : ExitLedSpeaking(t) => led_state' # "speaking"]_vars

\* thinking was entered during a playback that had taken the speaking
\* state; the playback's exit left the state alone and it is thinking
C36_Witness ==
    \E t \in Solo :
        /\ th[t].pc = "cleanup" /\ th[t].entered /\ th[t].plays = 1
        /\ led_state = "thinking"

C25_ExitSpeakingOnlyFromSpeaking ==
    [][\A t \in Solo :
          /\ ExitLedSpeaking(t) =>
                /\ led_state' # "speaking" /\ eye' = eye
                /\ IF led_state = "speaking"
                   THEN /\ led_state' = "idle" /\ led_emotion_color' = "blue"
                        /\ th'[t].pc = "exit_write"
                   ELSE /\ led_state' = led_state /\ led_emotion_color' = led_emotion_color
                        /\ th'[t].pc = "cleanup"
          /\ ExitLedWrite(t) => (eye' = "blue" /\ led_state' = led_state)
          /\ (th[t].pc # "exit_write" /\ th'[t].pc = "exit_write") =>
                (ExitLedSpeaking(t) /\ led_state = "speaking")
      ]_vars

\* _enter_led_speaking was refused by thinking, thinking has ended, and
\* _exit_led_speaking found the state idle and went on without a write
C25_Witness ==
    \E t \in Solo :
        /\ th[t].pc = "cleanup" /\ ~th[t].entered /\ th[t].plays = 1
        /\ led_state = "idle" /\ think_pc = "idle"

(***************************************************************************)
(* main._say: the application's one way to speak an utterance.             *)
(***************************************************************************)
\* the parameters speak_hq declares (it takes no **kwargs)
SpeakHqParams == {"text", "tts_handler", "emotion", "status_callback"}

\* the arguments main._say passes to pepper.speak_hq, by parameter name
SayArguments == {"text", "tts_handler", "emotion", "status_callback", "gesture_callback"}

\* Python binds a call's arguments before the body runs; a keyword the
\* function does not declare raises TypeError
CallBinds(arguments, params) == arguments \subseteq params

\* _say(text, emotion, gesture_callback) is called
CallSay(t, e, g, connected) ==
    /\ NotRunning(t)
    /\ th' = [th EXCEPT ![t] = [IdleThread EXCEPT !.pc = "say_entry", !.mode = "say",
                                                  !.emotion = e, !.cb = g,
                                                  !.online = connected]]
    /\ UNCHANGED <<ttsVars, obs, auxVars, speech_lock, ledVars, thinkVars, animVars>>

\* "if _pepper_ok(): pepper.speak_hq(..., gesture_callback = gesture_callback)":
\* the call enters speak_hq, or raises TypeError, which _say does not catch
SayOnline(t) ==
    /\ th[t].pc = "say_entry"
    /\ th[t].online
    /\ th' = [th EXCEPT ![t] =
                 IF CallBinds(SayArguments, SpeakHqParams)
                 THEN [th[t] EXCEPT !.pc = "gen", !.mode = "hq"]
                 ELSE Returned(FALSE)]
    /\ UNCHANGED <<ttsVars, obs, auxVars, speech_lock, ledVars, thinkVars, animVars>>

\* "else: ... if gesture_callback: gesture_callback()", then speak_and_play
SayOffline(t) ==
    /\ th[t].pc = "say_entry"
    /\ ~th[t].online
    /\ th' = [th EXCEPT ![t].pc = "off_gen", ![t].mode = "offline",
                        ![t].gest = IF th[t].cb THEN @ + 1 ELSE @]
    /\ UNCHANGED <<ttsVars, obs, auxVars, speech_lock, ledVars, thinkVars, animVars>>

\* speak_and_play: path = self.speak(text, emotion=emotion);
\* "if not path: return False"
OfflineGenerate(t, o1, o2, o3) ==
    LET r == SpeakResult(groq_daily_limit_hit, elevenlabs_daily_limit_hit,
                         elevenlabs_enabled, o1, o2, o3)
    IN  /\ th[t].pc = "off_gen"
        /\ groq_daily_limit_hit' = r.groq
        /\ elevenlabs_daily_limit_hit' = r.el
        /\ th' = [th EXCEPT ![t].path = r.tier, ![t].emotion = "none",
                            ![t].pc = IF r.tier # 0 THEN "off_play" ELSE "off_return"]
        /\ UNCHANGED <<elevenlabs_enabled, obs, auxVars, speech_lock, ledVars, thinkVars, animVars>>

\* speak_and_play: self.play_audio(path) tries aplay, mpg123, ffplay, paplay;
\* then self._cleanup(path)
OfflinePlay(t, found) ==
    /\ th[t].pc = "off_play"
    /\ th' = [th EXCEPT ![t].lplays = IF found THEN @ + 1 ELSE @,
                        ![t].result = TRUE, ![t].pc = "off_return"]
    /\ UNCHANGED <<ttsVars, obs, auxVars, speech_lock, ledVars, thinkVars, animVars>>

\* speak_and_play returns; _say's finally
OfflineReturn(t) ==
    /\ th[t].pc = "off_return"
    /\ th' = [th EXCEPT ![t] = Returned(th[t].result)]
    /\ UNCHANGED <<ttsVars, obs, auxVars, speech_lock, ledVars, thinkVars, animVars>>

\* one thread speaks: through main._say, connected or not, or by calling
\* speak_hq itself
NextSay ==
    \/ NextSingle
    \/ \E t \in Solo, e \in Emotions, g \in BOOLEAN, c \in BOOLEAN : CallSay(t, e, g, c)
    \/ \E t \in Solo : SayOnline(t)
    \/ \E t \in Solo : SayOffline(t)
    \/ \E t \in Solo, o1 \in Outcomes(1), o2 \in Outcomes(2), o3 \in Outcomes(3) :
           OfflineGenerate(t, o1, o2, o3)
    \/ \E t \in Solo, found \in BOOLEAN : OfflinePlay(t, found)
    \/ \E t \in Solo : OfflineReturn(t)

SpecSay == Init /\ [][NextSay]_vars

(***************************************************************************)
(* Claims about an utterance spoken by the application (under SpecSay).    *)
(***************************************************************************)
\* C11 as stated: an utterance that main._say hands to speak_hq with a
\* gesture callback has had that callback invoked exactly once when the
\* call is over, and the invocation happens while the speech lock is held
\* with the speaking state entered and ALAudioPlayer.play not yet begun.
C11_Orig_GestureFiresOnce ==
    [][\A t \in Threads :
          /\ (th[t].online /\ th[t].cb /\ th[t].pc \notin {"idle", "done"}
                  /\ th'[t].pc = "done") => th[t].gest = 1
          /\ (th[t].online /\ th'[t].gest # th[t].gest) =>
                 (th[t].pc = "load" /\ th[t].plays = 0 /\ th'[t].gest = 1)
      ]_vars

\* C12 as stated: an utterance whose tiers all failed (speak returned None)
\* has produced some spoken output by the time its call returns, through
\* speak_hq (built-in voice) and through the offline speak_and_play alike.
C12_Orig_NeverSilent ==
    \A t \in Threads :
        (th[t].pc \in {"hq_finally", "off_return"} /\ th[t].path = 0)
            => th[t].says + th[t].lplays >= 1

(***************************************************************************)
(* Emotion tags: what each tier passes to its back-end.  Rates are in      *)
(* percent ("+15%" is 15), pitches in Hz, ElevenLabs settings in           *)
(* hundredths.                                                             *)
(***************************************************************************)
\* the keys of _EDGE_EMOTION_MAP and _EL_EMOTION_MAP
SupportedEmotions == {"happy", "excited", "sad", "curious", "surprised", "neutral"}

\* _EDGE_EMOTION_MAP[e]["rate"]
EdgeEmotionRate(e) ==
    CASE e = "happy"     -> 15
      [] e = "excited"   -> 25
      [] e = "sad"       -> -15
      [] e = "curious"   -> 5
      [] e = "surprised" -> 10
      [] e = "neutral"   -> 0

\* _EDGE_EMOTION_MAP[e]["pitch"]
EdgeEmotionPitch(e) ==
    CASE e = "happy"     -> 5
      [] e = "excited"   -> 10
      [] e = "sad"       -> -5
      [] e = "curious"   -> 3
      [] e = "surprised" -> 8
      [] e = "neutral"   -> 0

\* _EL_EMOTION_MAP[e]["stability"]
ElStability(e) ==
    CASE e = "happy"     -> 40
      [] e = "excited"   -> 30
      [] e = "sad"       -> 80
      [] e = "curious"   -> 50
      [] e = "surprised" -> 30
      [] e = "neutral"   -> 60

\* _EL_EMOTION_MAP[e]["style"]
ElStyle(e) ==
    CASE e = "happy"     -> 70
      [] e = "excited"   -> 90
      [] e = "sad"       -> 20
      [] e = "curious"   -> 50
      [] e = "surprised" -> 70
      [] e = "neutral"   -> 30

\* the tags a caller may pass: the supported ones, one the maps do not
\* hold, and None ("none")
EmotionTags == SupportedEmotions \cup {"angry", "none"}

\* values the handler may be built with as edge_rate
BaseRates == {-20, -10, 0, 10, 20}

\* the text to speak
Hello == <<"hello">>

\* _speak_groq: input_text = f"[{emotion}] {text}" if emotion else text
GroqInput(e, text) == IF e # "none" THEN <<"[", e, "]", " ">> \o text ELSE text

\* _speak_edge_async: rate and pitch handed to edge_tts.Communicate
EdgeArgs(e, base) ==
    IF e # "none" /\ e \in SupportedEmotions
    THEN [rate |-> EdgeEmotionRate(e), pitch |-> EdgeEmotionPitch(e)]
    ELSE [rate |-> base, pitch |-> 0]

\* _speak_elevenlabs: whether kwargs holds voice_settings, and which; sdk
\* tells whether "from elevenlabs import VoiceSettings" succeeds
ElArgs(e, sdk) ==
    IF e # "none" /\ e \in SupportedEmotions /\ sdk
    THEN [settings |-> TRUE, stability |-> ElStability(e), style |-> ElStyle(e)]
    ELSE [settings |-> FALSE, stability |-> 0, style |-> 0]

\* a handler built with any base rate
InitProsody ==
    /\ InitTts /\ elevenlabs_enabled /\ InitRobot
    /\ edge_rate \in BaseRates
    /\ sent = NoSent
    /\ InitSsh
    /\ InitGesture
    /\ InitMsg
    /\ InitVoice

\* _speak_groq(text, output_file, emotion) up to speech.create
GroqCall(e) ==
    /\ sent' = [NoSent EXCEPT !.tier = 1, !.emotion = e, !.text = GroqInput(e, Hello)]
    /\ UNCHANGED <<ttsVars, obs, appVars, robotVars, edge_rate, sshVars, gestVars>>

\* _speak_edge_async(text, output_file, emotion) up to Communicate
EdgeCall(e) ==
    /\ sent' = [NoSent EXCEPT !.tier = 2, !.emotion = e, !.text = Hello,
                              !.rate = EdgeArgs(e, edge_rate).rate,
                              !.pitch = EdgeArgs(e, edge_rate).pitch]
    /\ UNCHANGED <<ttsVars, obs, appVars, robotVars, edge_rate, sshVars, gestVars>>

\* _speak_elevenlabs(text, output_file, emotion) up to text_to_speech.convert
ElCall(e, sdk) ==
    /\ sent' = [NoSent EXCEPT !.tier = 3, !.emotion = e, !.text = Hello,
                              !.settings = ElArgs(e, sdk).settings,
                              !.stability = ElArgs(e, sdk).stability,
                              !.style = ElArgs(e, sdk).style]
    /\ UNCHANGED <<ttsVars, obs, appVars, robotVars, edge_rate, sshVars, gestVars>>

NextProsody ==
    \/ \E e \in EmotionTags : GroqCall(e)
    \/ \E e \in EmotionTags : EdgeCall(e)
    \/ \E e \in EmotionTags, sdk \in BOOLEAN : ElCall(e, sdk)

SpecProsody == InitProsody /\ [][NextProsody]_vars

\* C14 as stated: for every supported emotion the rate handed to Edge is
\* the configured base rate plus the emotion's rate delta.
C14_Orig_RateAddedToBase ==
    (sent.tier = 2 /\ sent.emotion \in SupportedEmotions)
        => sent.rate = edge_rate + EdgeEmotionRate(sent.emotion)

\* C15 as stated: in each of the three tiers a tag outside the supported
\* set, or no tag, gives the back-end the input text and parameters that
\* the tag "neutral" gives.
C15_Orig_UnknownIsNeutral ==
    sent.emotion \notin SupportedEmotions =>
        /\ sent.tier = 1 => sent.text = GroqInput("neutral", Hello)
        /\ sent.tier = 2 =>
               /\ sent.rate = EdgeArgs("neutral", edge_rate).rate
               /\ sent.pitch = EdgeArgs("neutral", edge_rate).pitch
        /\ sent.tier = 3 =>
               \E sdk \in BOOLEAN :
                   /\ sent.settings = ElArgs("neutral", sdk).settings
                   /\ sent.stability = ElArgs("neutral", sdk).stability
                   /\ sent.style = ElArgs("neutral", sdk).style

(***************************************************************************)
(* The SSH connection: _transfer_to_robot, _ensure_ssh and disconnect,     *)
(* statement by statement.  No lock guards _ssh_client.  A connection is   *)
(* a number; ssh_live holds the connections that are open.                 *)
(***************************************************************************)
\* how many connections are told apart
MaxHandles == 3

\* connections nothing refers to any more
FreshHandles ==
    {h \in 1..MaxHandles :
        h \notin ssh_live /\ h # ssh_client /\ \A t \in Threads : th[t].client # h}

\* transport and transport.is_active()
SshActive(client, live) == client # 0 /\ client \in live

KeepsStaleClient(client) == client

\* _ensure_ssh's except branch: "self._ssh_client = None"
ClientAfterFailedConnect(client) == 0

\* _transfer_to_robot(local_path) is called
CallTransfer(t) ==
    /\ NotRunning(t)
    /\ th' = [th EXCEPT ![t] = [IdleThread EXCEPT !.pc = "ssh_check", !.mode = "transfer"]]
    /\ UNCHANGED <<ttsVars, obs, auxVars, speech_lock, ledVars, thinkVars, animVars>>

\* _ensure_ssh: "if transport and transport.is_active(): return True"
SshCheck(t) ==
    /\ th[t].pc = "ssh_check"
    /\ th' = [th EXCEPT ![t].pc = IF SshActive(ssh_client, ssh_live) THEN "ssh_put"
                                                                      ELSE "ssh_close"]
    /\ UNCHANGED <<ttsVars, obs, auxVars, speech_lock, ledVars, thinkVars, animVars>>

\* _ensure_ssh: "if self._ssh_client: self._ssh_client.close()"
SshCloseOld(t) ==
    /\ th[t].pc = "ssh_close"
    /\ ssh_live' = ssh_live \ {ssh_client}
    /\ ssh_dead' = ssh_dead \ {ssh_client}
    /\ th' = [th EXCEPT ![t].pc = "ssh_connect", ![t].closed = ssh_client]
    /\ UNCHANGED <<ttsVars, obs, appVars, prosodyVars, ssh_client, gestVars, speech_lock, ledVars,
                   thinkVars, animVars>>

\* _ensure_ssh: client = paramiko.SSHClient(); client.connect(...): a new
\* connection is open, or connect raises: "self._ssh_client = None; return
\* False", and _transfer_to_robot returns None
SshConnect(t, ok) ==
    /\ th[t].pc = "ssh_connect"
    /\ IF ok
       THEN /\ FreshHandles # {}
            /\ LET h == CHOOSE x \in FreshHandles : \A y \in FreshHandles : x <= y
               IN  /\ ssh_live' = ssh_live \cup {h}
                   /\ th' = [th EXCEPT ![t].client = h, ![t].pc = "ssh_assign",
                                       ![t].connects = @ + 1]
            /\ UNCHANGED ssh_client
       ELSE /\ ssh_client' = ClientAfterFailedConnect(ssh_client)
            /\ th' = [th EXCEPT ![t] = [Returned(FALSE) EXCEPT
                                            !.closed = th[t].closed,
                                            !.connects = th[t].connects + 1]]
            /\ UNCHANGED ssh_live
    /\ UNCHANGED <<ttsVars, obs, appVars, prosodyVars, ssh_dead, gestVars, speech_lock, ledVars,
                   thinkVars, animVars>>

\* _ensure_ssh: "self._ssh_client = client; return True"
SshAssign(t) ==
    /\ th[t].pc = "ssh_assign"
    /\ ssh_client' = th[t].client
    /\ th' = [th EXCEPT ![t].pc = "ssh_put"]
    /\ UNCHANGED <<ttsVars, obs, appVars, prosodyVars, ssh_live, ssh_dead, gestVars, speech_lock,
                   ledVars, thinkVars, animVars>>

\* the robot at the other end of the connection still answers
PeerAnswers(client, dead) == client \notin dead

\* _transfer_to_robot: open_sftp, put, close; any exception gives None
SshPut(t, ok) ==
    /\ th[t].pc = "ssh_put"
    /\ ok => (SshActive(ssh_client, ssh_live) /\ PeerAnswers(ssh_client, ssh_dead))
    /\ th' = [th EXCEPT ![t] =
                 IF th[t].mode = "play" /\ ok
                 THEN [th[t] EXCEPT !.pc = "acquire", !.remote = TRUE, !.xfers = @ + 1]
                 ELSE Returned(ok)]
    /\ UNCHANGED <<ttsVars, obs, auxVars, speech_lock, ledVars, thinkVars, animVars>>

\* disconnect() is called; its finally block is what touches the connection
CallDisconnect(t) ==
    /\ NotRunning(t)
    /\ th' = [th EXCEPT ![t] = [IdleThread EXCEPT !.pc = "disc_close", !.mode = "disconnect"]]
    /\ UNCHANGED <<ttsVars, obs, auxVars, speech_lock, ledVars, thinkVars, animVars>>

\* disconnect: "if self._ssh_client: self._ssh_client.close()"
DisconnectClose(t) ==
    /\ th[t].pc = "disc_close"
    /\ IF ssh_client # 0
       THEN /\ ssh_live' = ssh_live \ {ssh_client}
            /\ ssh_dead' = ssh_dead \ {ssh_client}
            /\ th' = [th EXCEPT ![t].pc = "disc_none"]
       ELSE /\ UNCHANGED <<ssh_live, ssh_dead>>
            /\ th' = [th EXCEPT ![t] = Returned(TRUE)]
    /\ UNCHANGED <<ttsVars, obs, appVars, prosodyVars, ssh_client, gestVars, speech_lock, ledVars,
                   thinkVars, animVars>>

\* disconnect: "self._ssh_client = None"
DisconnectNone(t) ==
    /\ th[t].pc = "disc_none"
    /\ ssh_client' = 0
    /\ th' = [th EXCEPT ![t] = Returned(TRUE)]
    /\ UNCHANGED <<ttsVars, obs, appVars, prosodyVars, ssh_live, ssh_dead, gestVars, speech_lock,
                   ledVars, thinkVars, animVars>>

NextSsh ==
    \/ \E t \in Threads : CallTransfer(t)
    \/ \E t \in Threads : SshCheck(t)
    \/ \E t \in Threads : SshCloseOld(t)
    \/ \E t \in Threads, ok \in BOOLEAN : SshConnect(t, ok)
    \/ \E t \in Threads : SshAssign(t)
    \/ \E t \in Threads, ok \in BOOLEAN : SshPut(t, ok)
    \/ \E t \in Threads : CallDisconnect(t)
    \/ \E t \in Threads : DisconnectClose(t)
    \/ \E t \in Threads : DisconnectNone(t)

SpecSsh == Init /\ [][NextSsh]_vars

(***************************************************************************)
(* The same calls over a link that can drop a connection.                  *)
(***************************************************************************)
\* the robot or the network ends connection h: its transport is no longer
\* active
ConnectionLost(h) ==
    /\ h \in ssh_live
    /\ ssh_live' = ssh_live \ {h}
    /\ ssh_dead' = ssh_dead \ {h}
    /\ UNCHANGED <<ttsVars, obs, appVars, prosodyVars, ssh_client, gestVars, speech_lock, ledVars,
                   thinkVars, animVars, th>>

NextSshLossy ==
    \/ NextSsh
    \/ \E h \in 1..MaxHandles : ConnectionLost(h)

SpecSshLossy == Init /\ [][NextSshLossy]_vars

\* C30: in a delivery whose probe of the connection fails, the stored
\* connection is closed and connect is called once; when that connect fails
\* the delivery returns None without a put and _ssh_client is None, and a
\* delivery that finds _ssh_client None connects anew.
C30_FailedProbeReconnectsOnce ==
    /\ [](\A t \in Threads : th[t].connects <= 1)
    /\ [][\A t \in Threads :
            /\ (SshCheck(t) /\ ~SshActive(ssh_client, ssh_live)) => th'[t].pc = "ssh_close"
            /\ SshCloseOld(t) =>
                   /\ th'[t].pc = "ssh_connect" /\ th'[t].connects = 0
                   /\ th'[t].closed = ssh_client /\ ssh_client \notin ssh_live'
            /\ SshConnect(t, FALSE) =>
                   /\ th'[t].pc = "done" /\ ~th'[t].result
                   /\ th'[t].connects = 1
                   /\ ssh_client' = 0
                   /\ UNCHANGED ssh_live
            /\ (ssh_client = 0 /\ SshCheck(t)) => th'[t].pc = "ssh_close"
        ]_vars

\* a delivery found the stored connection dead, closed it, and its connect
\* failed: it has returned None and nothing is stored
C30_Witness ==
    \E t \in Threads :
        /\ th[t].pc = "done" /\ ~th[t].result
        /\ th[t].closed # 0 /\ th[t].connects = 1
        /\ ssh_client = 0 /\ ssh_live = {}
        /\ \A u \in Threads \ {t} : th[u].pc = "idle"

\* a network blip: the peer of connection h is gone, and the transport of h
\* still reads active
LinkBlip(h) ==
    /\ h \in ssh_live \ ssh_dead
    /\ ssh_dead' = ssh_dead \cup {h}
    /\ UNCHANGED <<ttsVars, obs, appVars, prosodyVars, ssh_client, ssh_live, gestVars, speech_lock,
                   ledVars, thinkVars, animVars, th>>

NextSshStale ==
    \/ NextSshLossy
    \/ \E h \in 1..MaxHandles : LinkBlip(h)

SpecSshStale == Init /\ [][NextSshStale]_vars

\* C31 as stated: the probe before a delivery finds a connection that is
\* dead while its transport still reads active: the delivery goes on to
\* close and reconnect, and no put is started on a dead connection.
C31_Orig_ProbeFindsDeadConnection ==
    [][\A t \in Threads :
          SshCheck(t) =>
              /\ ~PeerAnswers(ssh_client, ssh_dead) => th'[t].pc = "ssh_close"
              /\ th'[t].pc = "ssh_put" => PeerAnswers(ssh_client, ssh_dead)
      ]_vars

(***************************************************************************)
(* play_audio_file with its delivery and its remote cleanup statement by   *)
(* statement, next to a caller of speak that can hold the speech lock.     *)
(***************************************************************************)
\* the thread that calls speak
Talker == Threads \ Solo

\* play_audio_file(file_path) is called: Phase 1 starts in _ensure_ssh
CallPlayDeliver(t) ==
    /\ NotRunning(t)
    /\ th' = [th EXCEPT ![t] = [IdleThread EXCEPT !.pc = "ssh_check", !.mode = "play"]]
    /\ UNCHANGED <<ttsVars, obs, auxVars, speech_lock, ledVars, thinkVars, animVars>>

\* "if not acquired:" taken; _cleanup_remote(remote_path) is next
AcquireTimeoutDeliver(t) ==
    /\ th[t].pc = "acquire"
    /\ LockWaitExpires(speech_lock)
    /\ th' = [th EXCEPT ![t].pc = "cleanup_nolock", ![t].fail = "lock"]
    /\ UNCHANGED <<ttsVars, obs, auxVars, speech_lock, ledVars, thinkVars, animVars>>

KeepsRemote(remote, reaches) == remote

\* the remote file after exec_command("rm -f ...")
RemoteAfterCleanup(remote, reaches) == IF reaches THEN FALSE ELSE remote

\* _cleanup_remote: "if self._ssh_client:" and exec_command goes through
DeleteReaches(client, live, dead) == SshActive(client, live) /\ PeerAnswers(client, dead)

\* _cleanup_remote(remote_path): "if self._ssh_client: try: exec_command(rm -f)
\* except Exception: pass"
CleanupOverSsh(t) ==
    /\ th[t].pc \in {"cleanup", "cleanup_nolock"}
    /\ LET reaches == DeleteReaches(ssh_client, ssh_live, ssh_dead)
       IN  th' = [th EXCEPT ![t].cleanups = @ + 1,
                            ![t].deletes = IF reaches THEN @ + 1 ELSE @,
                            ![t].remote = RemoteAfterCleanup(@, reaches),
                            ![t].pc = IF th[t].pc = "cleanup" THEN "release"
                                                               ELSE "return_nolock"]
    /\ UNCHANGED <<ttsVars, obs, auxVars, speech_lock, ledVars, thinkVars, animVars>>

\* "return False" after the cleanup of the lock-failure branch
ReturnNoLock(t) ==
    /\ th[t].pc = "return_nolock"
    /\ th' = [th EXCEPT ![t] = Returned(FALSE)]
    /\ UNCHANGED <<ttsVars, obs, auxVars, speech_lock, ledVars, thinkVars, animVars>>

NextDeliver ==
    \/ \E t \in Solo : CallPlayDeliver(t)
    \/ \E t \in Solo : SshCheck(t)
    \/ \E t \in Solo : SshCloseOld(t)
    \/ \E t \in Solo, ok \in BOOLEAN : SshConnect(t, ok)
    \/ \E t \in Solo : SshAssign(t)
    \/ \E t \in Solo, ok \in BOOLEAN : SshPut(t, ok)
    \/ \E t \in Solo : AcquireOk(t)
    \/ \E t \in Solo : AcquireTimeoutDeliver(t)
    \/ \E t \in Solo : EnterLedSpeaking(t)
    \/ \E t \in Solo : EnterLedWrite(t)
    \/ \E t \in Solo, ok \in BOOLEAN : LoadAndPlay(t, ok)
    \/ \E t \in Solo, ok \in BOOLEAN : PlayReturns(t, ok)
    \/ \E t \in Solo : StopAnim(t)
    \/ \E t \in Solo : JoinAnim(t)
    \/ \E t \in Solo : JoinTimeout(t)
    \/ \E t \in Solo : AnimCheck(t)
    \/ \E t \in Solo : AnimWrite(t)
    \/ \E t \in Solo : ExitLedSpeaking(t)
    \/ \E t \in Solo : ExitLedWrite(t)
    \/ \E t \in Solo : CleanupOverSsh(t)
    \/ \E t \in Solo : ReleaseAfterPlay(t)
    \/ \E t \in Solo : ReturnNoLock(t)
    \/ \E t \in Talker : CallSpeak(t)
    \/ \E t \in Talker : SayAcquireOk(t)
    \/ \E t \in Talker : SayAcquireTimeout(t)
    \/ \E t \in Talker : SayReturns(t)
    \/ \E h \in 1..MaxHandles : ConnectionLost(h)

SpecDeliver == Init /\ [][NextDeliver]_vars

\* play_audio_file is about to return after a delivery that succeeded
AboutToReturn(t) == th[t].pc \in {"release", "return_nolock"}

\* C32 as stated: when play_audio_file returns after a successful delivery,
\* exactly one remote delete of the file has been made and the file is gone,
\* whatever became of the playback or of the lock.
C32_Orig_OneRemoteDelete ==
    \A t \in Solo : AboutToReturn(t) => (th[t].deletes = 1 /\ ~th[t].remote)

\* C32: when play_audio_file returns after a successful delivery it has
\* called _cleanup_remote exactly once, whatever became of the playback or
\* of the lock; that call deletes the file when _ssh_client is set and its
\* connection is open, and otherwise the file stays on the robot.
C32_OneCleanupCall ==
    /\ [](\A t \in Solo : AboutToReturn(t) =>
              /\ th[t].xfers = 1 /\ th[t].cleanups = 1
              /\ th[t].deletes <= 1
              /\ th[t].remote <=> th[t].deletes = 0)
    /\ [](\A t \in Solo : th[t].cleanups = 1 => AboutToReturn(t))
    /\ [](\A t \in Solo : th[t].remote =>
              th[t].pc \notin {"idle", "done"} /\ th[t].xfers = 1)
    /\ [][\A t \in Solo :
            CleanupOverSsh(t) =>
               (th'[t].deletes = 1 <=> DeleteReaches(ssh_client, ssh_live, ssh_dead))
        ]_vars

\* the lock could not be acquired after a successful delivery; the file
\* has been deleted and play_audio_file is about to return False
C32_Witness ==
    \E t \in Solo :
        /\ th[t].pc = "return_nolock" /\ th[t].fail = "lock"
        /\ th[t].deletes = 1 /\ ~th[t].remote

\* thread t is between a successful acquire of the speech lock and the
\* release that belongs to it
HoldsGuard(t) ==
    th[t].pc \in {"enter_led", "enter_write", "load", "playing", "finally", "join",
                  "exit_led", "exit_write", "cleanup", "release", "saying"}

\* the next statement of a thread that holds the speech lock
HolderStep(t) ==
    \/ EnterLedSpeaking(t) \/ EnterLedWrite(t)
    \/ \E ok \in BOOLEAN : LoadAndPlay(t, ok)
    \/ \E ok \in BOOLEAN : PlayReturns(t, ok)
    \/ StopAnim(t) \/ JoinAnim(t) \/ JoinTimeout(t)
    \/ ExitLedSpeaking(t) \/ ExitLedWrite(t)
    \/ CleanupOverSsh(t) \/ ReleaseAfterPlay(t)
    \/ SayReturns(t)

\* C35: the speech lock is held exactly by the thread that is between its
\* acquire and its release, and is free when there is none; an exception
\* from loadFile or play leads into the finally block; a holder always has
\* a next statement, the lock changes hands only by an acquire of a free
\* lock or by the holder's one release, and that release ends the call.
C35_AcquireReleasePaired ==
    /\ [](\A t \in Threads : HoldsGuard(t) <=> speech_lock = t)
    /\ []((\A t \in Threads : ~HoldsGuard(t)) => speech_lock = 0)
    /\ [](\A t \in Threads : HoldsGuard(t) => ENABLED HolderStep(t))
    /\ [][\A t \in Threads :
            /\ (LoadAndPlay(t, FALSE) \/ PlayReturns(t, FALSE)) =>
                   (th'[t].pc = "finally" /\ speech_lock' = t)
            /\ (speech_lock = t /\ speech_lock' # t) =>
                   /\ ReleaseAfterPlay(t) \/ SayReturns(t)
                   /\ speech_lock' = 0 /\ th'[t].pc = "done"
            /\ (speech_lock # t /\ speech_lock' = t) =>
                   /\ speech_lock = 0
                   /\ AcquireOk(t) \/ SayAcquireOk(t)
        ]_vars

\* play raised; the finally block has run down to the release, which the
\* other thread's speak is waiting for
C35_Witness ==
    \E t \in Solo, u \in Talker :
        /\ th[t].pc = "release" /\ th[t].fail = "play" /\ speech_lock = t
        /\ th[u].pc = "say_acquire"

\* C16 as stated: at most one SSH connection is open at any time, and
\* every open connection is the one _ssh_client refers to or the one a
\* running _ensure_ssh is about to store there.
C16_Orig_OneLiveHandle ==
    /\ Cardinality(ssh_live) <= 1
    /\ \A h \in ssh_live : h = ssh_client \/ \E t \in Threads : th[t].client = h

(***************************************************************************)
(* Gestures: the animation loop's gesture step, _run_gesture's worker      *)
(* threads and the clock.  One tick is half a second.                      *)
(***************************************************************************)
\* the last clock value told apart
MaxTime == 9

\* how long a gesture's _impl lasts, in ticks: look_at_sound returns at
\* once, the arm and head gestures sleep 0.6 s to 1.6 s
GestureTicks == {0, 2}

\* the animation loop sleeps 20 x 0.1 s between two gesture steps
AnimSleepTicks == 4

\* "time.time() - self._last_gesture_time >= self._GESTURE_COOLDOWN"
CooledDown(t, last) == t - last >= GESTURE_COOLDOWN

\* a playback is in progress: play_audio_file has started the animation loop
InitPlaying ==
    /\ InitTts /\ elevenlabs_enabled
    /\ speech_lock = 1
    /\ led_state = "speaking"
    /\ led_emotion_color = "blue"
    /\ is_speaking_hq = TRUE
    /\ thinking = FALSE
    /\ eye = "blue"
    /\ th = [t \in Threads |->
                IF t = 1 THEN [IdleThread EXCEPT !.pc = "playing", !.mode = "play",
                                                 !.remote = TRUE, !.plays = 1, !.xfers = 1,
                                                 !.entered = TRUE]
                         ELSE IdleThread]
    /\ anim = [t \in Threads |-> IF t = 1 THEN "top" ELSE "dead"]
    /\ think_pc = "idle" /\ pulse_pc = "dead" /\ pulse_idx = 0
    /\ InitAux

\* time passes; a gesture in progress gets nearer its end
Tick ==
    /\ now < MaxTime
    /\ now' = now + 1
    /\ gw' = [k \in GestureKinds |->
                 IF gw[k].pc = "run" /\ gw[k].left > 0
                 THEN [gw[k] EXCEPT !.left = @ - 1] ELSE gw[k]]
    /\ UNCHANGED <<ttsVars, obs, appVars, robotVars, prosodyVars, sshVars, last_gesture_time,
                   gesture_lock, bg>>

\* "while self._is_speaking_hq:" read by the loop of thread t's playback
AnimLoopTest(t) ==
    /\ anim[t] = "top"
    /\ bg.pc = "idle"
    /\ IF is_speaking_hq
       THEN /\ bg' = [pc |-> "write", wake |-> 0, stop |-> FALSE]
            /\ UNCHANGED anim
       ELSE /\ bg' = [LoopTop EXCEPT !.stop = TRUE]
            /\ anim' = [anim EXCEPT ![t] = "dead"]
    /\ UNCHANGED <<ttsVars, obs, appVars, speech_lock, ledVars, thinkVars, is_speaking_hq, th,
                   prosodyVars, sshVars, now, last_gesture_time, gesture_lock, gw>>

\* "with self._led_lock: color = self._led_emotion_color" then set_eye_color(color)
AnimLoopWrite ==
    /\ bg.pc = "write"
    /\ eye' = led_emotion_color
    /\ bg' = [bg EXCEPT !.pc = "gate"]
    /\ UNCHANGED <<ttsVars, obs, appVars, speech_lock, led_state, led_emotion_color, thinkVars,
                   animVars, th, prosodyVars, sshVars, now, last_gesture_time,
                   gesture_lock, gw>>

\* _hq_speech_animation_loop: "if (random.random() > 0.6 and time.time() -
\* self._last_gesture_time >= self._GESTURE_COOLDOWN)"
AnimGestureGate(roll) ==
    /\ bg.pc = "gate"
    /\ bg' = IF roll /\ CooledDown(now, last_gesture_time)
             THEN [bg EXCEPT !.pc = "chosen"]
             ELSE [bg EXCEPT !.pc = "sleep", !.wake = now + AnimSleepTicks]
    /\ UNCHANGED <<ttsVars, obs, appVars, robotVars, prosodyVars, sshVars, now, last_gesture_time,
                   gesture_lock, gw>>

\* the other Gesture worker is inside its gesture
OtherExecuting(k) == \E j \in GestureKinds \ {k} : gw[j].pc \in {"stamp", "run"}

\* "random.choice(gesture_fns)()": _run_gesture starts a Gesture thread and
\* returns.  A worker started while the loop's earlier worker is still
\* there is not told apart from it.
AnimGestureSpawn(d) ==
    /\ bg.pc = "chosen"
    /\ gw' = IF gw["background"].pc = "none"
             THEN [gw EXCEPT !["background"] =
                      [pc |-> "start", left |-> d, gap |-> 0,
                       busy |-> OtherExecuting("background")]]
             ELSE gw
    /\ bg' = [bg EXCEPT !.pc = "sleep", !.wake = now + AnimSleepTicks]
    /\ UNCHANGED <<ttsVars, obs, appVars, robotVars, prosodyVars, sshVars, now, last_gesture_time,
                   gesture_lock>>

NeverBreaks(speaking) == FALSE

\* the polling loop's "if not self._is_speaking_hq: break"
PollBreaks(speaking) == ~speaking

\* "for _ in range(20): ... time.sleep(0.1)" is over, by count or by break
AnimSleepDone ==
    /\ bg.pc = "sleep"
    /\ now >= bg.wake \/ PollBreaks(is_speaking_hq)
    /\ bg' = [LoopTop EXCEPT !.stop = PollBreaks(is_speaking_hq)]
    /\ UNCHANGED <<ttsVars, obs, appVars, robotVars, prosodyVars, sshVars, now, last_gesture_time,
                   gesture_lock, gw>>

\* another thread calls wave(), nod(), ...: _run_gesture starts a Gesture thread
IntentionalGesture(d) ==
    /\ gw["intentional"].pc = "none"
    /\ gw' = [gw EXCEPT !["intentional"] =
                 [pc |-> "start", left |-> d, gap |-> 0,
                  busy |-> OtherExecuting("intentional")]]
    /\ UNCHANGED <<ttsVars, obs, appVars, robotVars, prosodyVars, sshVars, now, last_gesture_time,
                   gesture_lock, bg>>

GestureLockAlwaysFree(lock) == TRUE

\* "self._gesture_lock.acquire(blocking=False)" succeeds
GestureLockFree(lock) == lock = "free"

\* _worker: "if not self._gesture_lock.acquire(blocking=False): return"
WorkerAcquire(k) ==
    /\ gw[k].pc = "start"
    /\ IF GestureLockFree(gesture_lock)
       THEN gesture_lock' = k /\ gw' = [gw EXCEPT ![k].pc = "stamp"]
       ELSE UNCHANGED gesture_lock /\ gw' = [gw EXCEPT ![k] = NoWorker]
    /\ UNCHANGED <<ttsVars, obs, appVars, robotVars, prosodyVars, sshVars, now, last_gesture_time, bg>>

\* _worker: "self._last_gesture_time = time.time()"; the gesture starts.
\* gap is the time since the start of the gesture before this one.
WorkerStamp(k) ==
    /\ gw[k].pc = "stamp"
    /\ last_gesture_time' = now
    /\ gw' = [gw EXCEPT ![k].pc = "run", ![k].gap = now - last_gesture_time]
    /\ UNCHANGED <<ttsVars, obs, appVars, robotVars, prosodyVars, sshVars, now, gesture_lock, bg>>

\* _worker: impl_fn has returned; "finally: self._gesture_lock.release()"
WorkerDone(k) ==
    /\ gw[k].pc = "run"
    /\ gw[k].left = 0
    /\ gesture_lock' = "free"
    /\ gw' = [gw EXCEPT ![k] = NoWorker]
    /\ UNCHANGED <<ttsVars, obs, appVars, robotVars, prosodyVars, sshVars, now, last_gesture_time, bg>>

NextGesture ==
    \/ Tick
    \/ \E t \in Solo : AnimLoopTest(t)
    \/ AnimLoopWrite
    \/ \E roll \in BOOLEAN : AnimGestureGate(roll)
    \/ \E d \in GestureTicks : AnimGestureSpawn(d)
    \/ AnimSleepDone
    \/ \E d \in GestureTicks : IntentionalGesture(d)
    \/ \E k \in GestureKinds : WorkerAcquire(k)
    \/ \E k \in GestureKinds : WorkerStamp(k)
    \/ \E k \in GestureKinds : WorkerDone(k)

SpecGesture == InitPlaying /\ [][NextGesture]_vars

\* C17 as stated: a background gesture never starts less than the cooldown
\* after the start of the gesture before it, whichever thread made that one.
C17_Orig_BackgroundRespectsCooldown ==
    gw["background"].pc = "run" => gw["background"].gap >= GESTURE_COOLDOWN

\* a Gesture worker is inside its gesture: it holds the lock and stamps the
\* time or runs the implementation
Executing(k) == gw[k].pc \in {"stamp", "run"}

\* C29 as stated: at most one gesture executes at a time, and a gesture
\* requested while another gesture was executing never executes.
C29_Orig_RequestedWhileBusyNeverRuns ==
    /\ Cardinality({k \in GestureKinds : Executing(k)}) <= 1
    /\ \A k \in GestureKinds : Executing(k) => ~gw[k].busy

\* C29: at most one gesture executes at a time and it is the one that holds
\* the gesture lock; a worker that finds the lock taken when it tests it
\* ends at once and its gesture is not executed, and a worker never waits
\* for the lock.
C29_DroppedWhenLockTaken ==
    /\ [](Cardinality({k \in GestureKinds : Executing(k)}) <= 1)
    /\ [](\A k \in GestureKinds : Executing(k) <=> gesture_lock = k)
    /\ [](\A k \in GestureKinds : gw[k].pc = "start" => ENABLED WorkerAcquire(k))
    /\ [][\A k \in GestureKinds :
            /\ (WorkerAcquire(k) /\ gesture_lock # "free") =>
                   (gw'[k] = NoWorker /\ UNCHANGED <<gesture_lock, last_gesture_time>>)
            /\ (~Executing(k) /\ Executing(k)') => (WorkerAcquire(k) /\ gesture_lock = "free")
        ]_vars

\* a gesture was requested while the other one was executing, and its worker
\* stands at the lock test with the lock still taken
C29_Witness ==
    \E k \in GestureKinds :
        /\ gw[k].pc = "start" /\ gw[k].busy
        /\ gesture_lock \in GestureKinds \ {k}

(***************************************************************************)
(* The same playback with its end: play returns, the finally block of      *)
(* play_audio_file stops and joins the animation loop and releases the     *)
(* speech lock.                                                            *)
(***************************************************************************)
\* one step of the animation loop
AnimLoopStep ==
    \/ \E t \in Solo : AnimLoopTest(t)
    \/ AnimLoopWrite
    \/ \E roll \in BOOLEAN : AnimGestureGate(roll)
    \/ \E d \in GestureTicks : AnimGestureSpawn(d)
    \/ AnimSleepDone

NextAnim ==
    \/ Tick
    \/ AnimLoopStep
    \/ WorkerAcquire("background")
    \/ WorkerStamp("background")
    \/ WorkerDone("background")
    \/ \E t \in Solo, ok \in BOOLEAN : PlayReturns(t, ok)
    \/ \E t \in Solo : StopAnim(t)
    \/ \E t \in Solo : JoinAnim(t)
    \/ \E t \in Solo : JoinTimeout(t)
    \/ \E t \in Solo : ExitLedSpeaking(t)
    \/ \E t \in Solo : ExitLedWrite(t)
    \/ \E t \in Solo : CleanupRemote(t)
    \/ \E t \in Solo : ReleaseAfterPlay(t)

SpecAnim == InitPlaying /\ [][NextAnim]_vars

\* the HQSpeechAnim thread is scheduled: fadeRGB returns, a thread start
\* returns, a sleep of 0.1 s ends.  Nothing makes play return.
SpecAnimFair == SpecAnim /\ WF_vars(AnimLoopStep)

\* C27 as stated: when play_audio_file releases the speech lock the
\* animation thread has ended and the gesture it started is over; the
\* loop writes to the eyes, and a background gesture starts, only while
\* the playback's caller holds the lock.
C27_Orig_AnimOverAtRelease ==
    [][\A t \in Solo :
          /\ ReleaseAfterPlay(t) => (anim[t] = "dead" /\ gw["background"].pc = "none")
          /\ (AnimLoopWrite \/ WorkerStamp("background")) => speech_lock = t
      ]_vars

\* C28: once the stop signal is set the animation loop ends: every pass of
\* the polling loop reads the signal and breaks on it, after reading it the
\* loop is at its while test, which ends it, and it makes no gesture test
\* and starts no gesture in between.
C28_LoopEndsAfterStop ==
    /\ [](bg.pc = "sleep" /\ ~is_speaking_hq => ENABLED AnimSleepDone)
    /\ [](bg.stop => bg.pc = "idle")
    /\ [][\A t \in Solo :
            /\ (bg.stop /\ AnimLoopTest(t)) => anim'[t] = "dead"
            /\ ( \/ \E roll \in BOOLEAN : AnimGestureGate(roll)
                 \/ \E d \in GestureTicks : AnimGestureSpawn(d) ) => ~bg.stop
        ]_vars
    /\ \A t \in Solo : (anim[t] # "dead" /\ ~is_speaking_hq) ~> anim[t] = "dead"

\* play has returned and the stop signal is set while the loop slept after
\* starting a gesture; the loop broke out of its sleep before the 2 s were
\* over and stands at the while test that ends it
C28_Witness ==
    /\ bg.stop /\ bg.pc = "idle" /\ ~is_speaking_hq
    /\ \E t \in Solo : anim[t] = "top" /\ th[t].pc = "join"
    /\ gw["background"].pc = "run"

(***************************************************************************)
(* main.py: handle_message, _process_message and _drain_queue.  Every      *)
(* message arrives on a thread of its own.                                 *)
(***************************************************************************)
\* the other variables, which the message pipeline leaves alone
notMq == <<ttsVars, obs, robotVars, prosodyVars, sshVars, gestVars, vh>>

\* handle_message: "if not state.message_lock.acquire(blocking=False):"
HandleMessage(m) ==
    /\ mq.pc[m] = "new"
    /\ mq' = IF mq.lock = 0
             THEN [mq EXCEPT !.lock = m, !.pc[m] = "process", !.cur[m] = m]
             ELSE [mq EXCEPT !.pc[m] = "full_check"]
    /\ UNCHANGED notMq

\* handle_message: "if state.message_queue.full():"
QueueFullCheck(m) ==
    /\ mq.pc[m] = "full_check"
    /\ mq' = [mq EXCEPT !.pc[m] = IF Len(mq.queue) >= QueueSize THEN "drop" ELSE "put"]
    /\ UNCHANGED notMq

\* handle_message: "dropped = state.message_queue.get_nowait()", or
\* queue.Empty
QueueDropOldest(m) ==
    /\ mq.pc[m] = "drop"
    /\ mq' = IF mq.queue # << >>
             THEN [mq EXCEPT !.dropped = @ \cup {Head(mq.queue)},
                             !.queue = Tail(@), !.pc[m] = "put"]
             ELSE [mq EXCEPT !.pc[m] = "put"]
    /\ UNCHANGED notMq

\* handle_message: "state.message_queue.put_nowait(message)", or queue.Full;
\* return
QueuePut(m) ==
    /\ mq.pc[m] = "put"
    /\ mq' = IF Len(mq.queue) < QueueSize
             THEN [mq EXCEPT !.queue = Append(@, m), !.pc[m] = "returned"]
             ELSE [mq EXCEPT !.refused = @ \cup {m}, !.pc[m] = "returned"]
    /\ UNCHANGED notMq

\* _process_message: the try block, whatever it does or raises
ProcessMessage(m) ==
    /\ mq.pc[m] = "process"
    /\ mq' = [mq EXCEPT !.processed = @ \cup {mq.cur[m]}, !.pc[m] = "release"]
    /\ UNCHANGED notMq

\* _process_message: "finally: state.message_lock.release()"
ReleaseMessageLock(m) ==
    /\ mq.pc[m] = "release"
    /\ mq' = [mq EXCEPT !.lock = 0, !.pc[m] = "drain"]
    /\ UNCHANGED notMq

\* _drain_queue: "if state.message_queue.empty(): return"
DrainEmptyCheck(m) ==
    /\ mq.pc[m] = "drain"
    /\ mq' = [mq EXCEPT !.pc[m] = IF mq.queue = << >> THEN "returned" ELSE "drain_acquire"]
    /\ UNCHANGED notMq

\* _drain_queue: "if not state.message_lock.acquire(blocking=False): return"
DrainAcquire(m) ==
    /\ mq.pc[m] = "drain_acquire"
    /\ mq' = IF mq.lock = 0
             THEN [mq EXCEPT !.lock = m, !.pc[m] = "drain_get"]
             ELSE [mq EXCEPT !.pc[m] = "returned"]
    /\ UNCHANGED notMq

\* _drain_queue: "next_msg = state.message_queue.get_nowait()" and
\* _process_message(next_msg), or queue.Empty: release and return
DrainGet(m) ==
    /\ mq.pc[m] = "drain_get"
    /\ mq' = IF mq.queue # << >>
             THEN [mq EXCEPT !.cur[m] = Head(mq.queue), !.queue = Tail(@),
                             !.pc[m] = "process"]
             ELSE [mq EXCEPT !.lock = 0, !.pc[m] = "returned"]
    /\ UNCHANGED notMq

NextMsg ==
    \/ \E m \in Msgs : HandleMessage(m)
    \/ \E m \in Msgs : QueueFullCheck(m)
    \/ \E m \in Msgs : QueueDropOldest(m)
    \/ \E m \in Msgs : QueuePut(m)
    \/ \E m \in Msgs : ProcessMessage(m)
    \/ \E m \in Msgs : ReleaseMessageLock(m)
    \/ \E m \in Msgs : DrainEmptyCheck(m)
    \/ \E m \in Msgs : DrainAcquire(m)
    \/ \E m \in Msgs : DrainGet(m)

SpecMsg == Init /\ [][NextMsg]_vars

\* C38 as stated: a message put into the queue is processed or dropped as
\* the oldest of a full queue without a further message having to arrive:
\* there is no state in which a message waits in the queue while no thread
\* is inside handle_message, _process_message or _drain_queue.
C38_Orig_QueuedIsServed ==
    mq.queue # << >> => \E m \in Msgs : mq.pc[m] \notin {"new", "returned"}

(***************************************************************************)
(* voice_handler.py: VoiceHandler.start_recording,                         *)
(* stop_recording_and_transcribe, _stop_stream and the auto-stop timer.    *)
(***************************************************************************)
\* the other variables, which the voice handler leaves alone
notVh == <<ttsVars, obs, robotVars, prosodyVars, sshVars, gestVars, mq>>

\* _stop_stream without "self._is_recording = False"
StopKeepsFlag(flag) == flag

\* _stop_stream: "self._is_recording = False"
FlagAfterStop(flag) == FALSE

\* start_recording, under the lock: "if self._is_recording: return False",
\* else "self._audio_chunks = []; self._is_recording = True"
StartTest ==
    /\ vh.start = "idle"
    /\ IF vh.is_recording
       THEN vh' = [vh EXCEPT !.returned = "false"]
       ELSE /\ vh.cur < MaxRecs
            /\ vh' = [vh EXCEPT !.chunks = 0, !.is_recording = TRUE,
                                !.cur = @ + 1, !.start = "open"]
    /\ UNCHANGED notVh

\* start_recording: the stream is opened and started, the timer is created
\* and started; return True
StartOpen ==
    /\ vh.start = "open"
    /\ vh' = [vh EXCEPT !.stream = vh.cur, !.timer = vh.cur,
                        !.timers[vh.cur] = "armed",
                        !.start = "idle", !.returned = "true"]
    /\ UNCHANGED notVh

\* start_recording: "except Exception: with self._lock:
\* self._is_recording = False ... return False"
StartFails ==
    /\ vh.start = "open"
    /\ vh' = [vh EXCEPT !.is_recording = FALSE, !.start = "idle",
                        !.returned = "false"]
    /\ UNCHANGED notVh

\* _audio_callback: "with self._lock: if self._is_recording:
\* self._audio_chunks.append(indata.copy())"
AudioCallback ==
    /\ vh.stream # 0
    /\ vh.is_recording
    /\ vh.chunks < MaxChunks
    /\ vh' = [vh EXCEPT !.chunks = @ + 1]
    /\ UNCHANGED notVh

\* the caller's stop_recording_and_transcribe() begins
StopCall ==
    /\ vh.stop[0].pc = "idle"
    /\ vh' = [vh EXCEPT !.stop[0].pc = "timer_test"]
    /\ UNCHANGED notVh

\* threading.Timer(self.max_duration, self._auto_stop) expires: _auto_stop
\* calls stop_recording_and_transcribe() on the timer's thread
TimerFires(r) ==
    /\ vh.timers[r] = "armed"
    /\ vh' = [vh EXCEPT !.timers[r] = "fired", !.stop[r].pc = "timer_test"]
    /\ UNCHANGED notVh

\* _stop_stream: "if self._auto_stop_timer:"
StopTimerTest(k) ==
    /\ vh.stop[k].pc = "timer_test"
    /\ vh' = [vh EXCEPT !.stop[k].pc = IF vh.timer # 0 THEN "cancel" ELSE "take"]
    /\ UNCHANGED notVh

\* _stop_stream: "self._auto_stop_timer.cancel(); self._auto_stop_timer =
\* None"; when another thread has set it to None meanwhile the call raises
\* AttributeError out of stop_recording_and_transcribe
StopCancel(k) ==
    /\ vh.stop[k].pc = "cancel"
    /\ vh' = IF vh.timer = 0
             THEN [vh EXCEPT !.stop[k] = NoStop]
             ELSE [vh EXCEPT !.timers[vh.timer] = IF @ = "armed" THEN "cancelled" ELSE @,
                             !.timer = 0, !.stop[k].pc = "take"]
    /\ UNCHANGED notVh

\* _stop_stream, under the lock: "if not self._is_recording: return None",
\* else the flag is cleared and the chunks are taken and reset
StopTake(k) ==
    /\ vh.stop[k].pc = "take"
    /\ vh' = IF ~vh.is_recording
             THEN [vh EXCEPT !.stop[k] = NoStop]
             ELSE [vh EXCEPT !.is_recording = FlagAfterStop(vh.is_recording),
                             !.chunks = 0,
                             !.stop[k] = [pc |-> "close", taken |-> vh.chunks,
                                          which |-> vh.cur]]
    /\ UNCHANGED notVh

\* _stop_stream: the stream is closed; no chunks, a recording shorter than
\* min_duration or a failed write return None, else the path of the WAV file
StopClose(k, saved) ==
    /\ vh.stop[k].pc = "close"
    /\ vh' = IF vh.stop[k].taken > 0 /\ saved
             THEN [vh EXCEPT !.stream = 0, !.stop[k].pc = "hand"]
             ELSE [vh EXCEPT !.stream = 0, !.stop[k] = NoStop]
    /\ UNCHANGED notVh

\* stop_recording_and_transcribe: "threading.Thread(target=
\* self._transcribe_worker, args=(audio_path,)).start()"
StopHand(k) ==
    /\ vh.stop[k].pc = "hand"
    /\ vh' = [vh EXCEPT !.handed[vh.stop[k].which] = @ + 1, !.stop[k] = NoStop]
    /\ UNCHANGED notVh

NextVoice ==
    \/ StartTest
    \/ StartOpen
    \/ StartFails
    \/ AudioCallback
    \/ StopCall
    \/ \E r \in Recs : TimerFires(r)
    \/ \E k \in Stoppers : StopTimerTest(k)
    \/ \E k \in Stoppers : StopCancel(k)
    \/ \E k \in Stoppers : StopTake(k)
    \/ \E k \in Stoppers, saved \in BOOLEAN : StopClose(k, saved)
    \/ \E k \in Stoppers : StopHand(k)

SpecVoice == Init /\ [][NextVoice]_vars

\* start_recording's locked test finds a recording active
StartWhileRecording == StartTest /\ vh.is_recording

\* C39: for any interleaving of start_recording,
\* stop_recording_and_transcribe and the auto-stop timer, each started
\* recording is handed to transcription at most once, and start_recording
\* called while a recording is active returns False and leaves the flag, the
\* recording and the chunks captured so far as they are.
C39_HandedAtMostOnce ==
    /\ [](\A r \in Recs : vh.handed[r] <= 1)
    /\ [][StartWhileRecording =>
             /\ vh'.returned = "false"
             /\ vh'.chunks = vh.chunks
             /\ vh'.is_recording
             /\ vh'.cur = vh.cur]_vars

\* the first recording was handed over once and its timer had fired; the
\* second recording is running with chunks captured and a start during it
\* was refused
C39_Witness ==
    /\ vh.handed[1] = 1
    /\ vh.timers[1] = "fired"
    /\ vh.is_recording
    /\ vh.cur = 2
    /\ vh.stream = 2
    /\ vh.start = "idle"
    /\ vh.chunks > 0
    /\ vh.returned = "false"

====
